---- MODULE Spec2Model ----
(***************************************************************************)
(* im2code: Session Router, Subscription Store, Watch Supervisor, Idle     *)
(* Detector and Platform Multiplexer, modelled from the Go sources.        *)
(*                                                                         *)
(* Strings are modelled at token granularity: a message text is a sequence *)
(* of symbols, where "#" is the command prefix, " " is whitespace and any  *)
(* other symbol is a run of non-blank characters.  A chat key              *)
(* (channel + ":" + chatID) is the pair <<channel, chatID>>.               *)
(***************************************************************************)
EXTENDS Integers, Sequences, FiniteSets, TLC

\* ------------------------------------------------------------------------
\* Bounds of the model
\* ------------------------------------------------------------------------
\* capacity of the outbound queue in the model (64 in runStart)
OutCap == 1

\* ------------------------------------------------------------------------
\* Domains
\* ------------------------------------------------------------------------
Channels == {"telegram", "feishu", "slack"}
ChatIDs  == {"c1", "c2"}
ChatKeys == Channels \X ChatIDs
\* sender IDs; the feishu adapter leaves SenderID at the Go zero value "" when
\* the event carries no open_id (the qq adapter never sets it)
Senders  == {"", "u1", "u2"}
Sessions == {<<"dev">>, <<"ops">>}

prefix == <<"#">>

\* ------------------------------------------------------------------------
\* package strings, at token granularity
\* ------------------------------------------------------------------------
HasPrefix(s, p) ==
  /\ Len(s) >= Len(p)
  /\ SubSeq(s, 1, Len(p)) = p

TrimPrefix(s, p) ==
  IF HasPrefix(s, p) THEN SubSeq(s, Len(p) + 1, Len(s)) ELSE s

\* strings.ToLower on one symbol
LowerSym(c) ==
  CASE c = "IM2CODE" -> "im2code"
    [] c = "ATTACH"  -> "attach"
    [] c = "OFF"     -> "off"
    [] c = "On"      -> "on"
    [] c = "FooBar"  -> "foobar"
    [] OTHER         -> c

ToLower(s) == [i \in 1..Len(s) |-> LowerSym(s[i])]

\* strings.Fields: maximal runs of non-blank symbols
RECURSIVE FieldsFrom(_, _, _)
FieldsFrom(s, i, cur) ==
  IF i > Len(s)
    THEN IF cur = <<>> THEN <<>> ELSE <<cur>>
    ELSE IF s[i] = " "
           THEN IF cur = <<>> THEN FieldsFrom(s, i + 1, <<>>)
                              ELSE <<cur>> \o FieldsFrom(s, i + 1, <<>>)
           ELSE FieldsFrom(s, i + 1, Append(cur, s[i]))

Fields(s) == FieldsFrom(s, 1, <<>>)

\* ------------------------------------------------------------------------
\* Subscription Store (package state)
\* ------------------------------------------------------------------------
\* json.MarshalIndent of a map writes its keys in sorted order
KeyOrder ==
  << <<"feishu", "c1">>, <<"feishu", "c2">>, <<"slack", "c1">>, <<"slack", "c2">>,
     <<"telegram", "c1">>, <<"telegram", "c2">> >>

Marshal(d) ==
  LET ks == SelectSeq(KeyOrder, LAMBDA k : k \in DOMAIN d)
  IN  [i \in 1..Len(ks) |-> <<ks[i], d[ks[i]]>>]

\* json.Unmarshal into a map: one entry per member, a later duplicate wins
Unmarshal(body) ==
  LET keys == {body[i][1] : i \in 1..Len(body)}
      lastIx(k) == CHOOSE i \in 1..Len(body) :
                      /\ body[i][1] = k
                      /\ \A j \in 1..Len(body) : body[j][1] = k => j <= i
  IN  [k \in keys |-> body[lastIx(k)][2]]

MissingFile == [st |-> "missing", body |-> <<>>]
EmptyFile   == [st |-> "empty", body |-> <<>>]
JsonFile(d) == [st |-> "json", body |-> Marshal(d)]

\* Subscriptions.load via NewSubscriptions: a missing or zero-length file
\* gives the empty map
load(f) == IF f.st = "json" THEN Unmarshal(f.body) ELSE << >>

\* os.WriteFile as called by save(); its error is discarded.
\*   "ok"        the whole map was written
\*   "openfail"  the file could not be opened: it keeps its old content
\*   "truncated" the file was truncated and the write failed
WriteOutcomes == {"ok", "openfail", "truncated"}

save_KeepsOldFile(d, f, outcome) == f

save(d, f, outcome) ==
  CASE outcome = "ok"        -> JsonFile(d)
    [] outcome = "openfail"  -> f
    [] outcome = "truncated" -> EmptyFile

Get(d, key) == IF key \in DOMAIN d THEN <<d[key], TRUE>> ELSE << <<>>, FALSE >>

SetData_KeepsExisting(d, key, session) ==
  [k \in DOMAIN d \cup {key} |-> IF k \in DOMAIN d THEN d[k] ELSE session]

SetData(d, key, session) ==
  [k \in DOMAIN d \cup {key} |-> IF k = key THEN session ELSE d[k]]

DeleteData_ClearsAll(d, key) == << >>

DeleteData(d, key) == [k \in DOMAIN d \ {key} |-> d[k]]

\* Subscriptions.All: a copy of the map
All(d) == [k \in DOMAIN d |-> d[k]]

\* NewSubscriptions(path): a store whose map is what load() reads
NewSubscriptions(f) == load(f)

\* ------------------------------------------------------------------------
\* Session Router (package router)
\* ------------------------------------------------------------------------
\* A handler is modelled as the sequence of primitive statements it executes,
\* in program order; Exec runs them one after the other.
Txt(tag, s, x) == [t |-> tag, s |-> s, x |-> x]
Stmt(op, a, b) == [op |-> op, a |-> a, b |-> b]

chatKey(msg) == <<msg.Channel, msg.ChatID>>

reply_ToFirstChat(msg, text) ==
  Stmt("Reply", [Channel |-> msg.Channel, ChatID |-> "c1", Text |-> text], "")

\* r.reply(msg, text)
reply(msg, text) ==
  Stmt("Reply", [Channel |-> msg.Channel, ChatID |-> msg.ChatID, Text |-> text], "")

activationCmd == prefix \o <<"im2code">>

helpText == Txt("Help", <<>>, "")

BoolStr(b) == IF b THEN "true" ELSE "false"

\* toTmuxKey: key names are tokens whose separators are symbols of their own
keyAliasTable ==
  << <<"esc", "Escape">>, <<"escape", "Escape">>, <<"bs", "BSpace">>,
     <<"backspace", "BSpace">>, <<"del", "Delete">>, <<"delete", "Delete">>,
     <<"ins", "Insert">>, <<"insert", "Insert">>, <<"pgup", "PPage">>,
     <<"pageup", "PPage">>, <<"pgdn", "NPage">>, <<"pagedown", "NPage">>,
     <<"home", "Home">>, <<"end", "End">>, <<"up", "Up">>, <<"down", "Down">>,
     <<"left", "Left">>, <<"right", "Right">>, <<"space", "Space">> >>

keyAliases ==
  [a \in {<<keyAliasTable[i][1]>> : i \in DOMAIN keyAliasTable} |->
     << keyAliasTable[CHOOSE i \in DOMAIN keyAliasTable : keyAliasTable[i][1] = a[1]][2] >>]

ReplacePlus(tok) == [i \in 1..Len(tok) |-> IF tok[i] = "+" THEN "-" ELSE tok[i]]

LowerKeySym(c) ==
  CASE c = "Ctrl" -> "ctrl"
    [] c = "CTRL" -> "ctrl"
    [] c = "Alt"  -> "alt"
    [] c = "C"    -> "c"
    [] c = "X"    -> "x"
    [] c = "PgUp" -> "pgup"
    [] c = "ESC"  -> "esc"
    [] c = "Enter" -> "enter"
    [] c = "F1"   -> "f1"
    [] OTHER      -> c

toTmuxKey_CaseSensitive(key) ==
  LET normalized == ReplacePlus(key)
  IN  IF HasPrefix(normalized, <<"ctrl", "-">>)
        THEN <<"C-">> \o SubSeq(normalized, 3, Len(normalized))
        ELSE IF HasPrefix(normalized, <<"alt", "-">>)
               THEN <<"M-">> \o SubSeq(normalized, 3, Len(normalized))
               ELSE IF normalized \in DOMAIN keyAliases
                      THEN keyAliases[normalized]
                      ELSE key

toTmuxKey(key) ==
  LET normalized == ReplacePlus([i \in 1..Len(key) |-> LowerKeySym(key[i])])
  IN  IF HasPrefix(normalized, <<"ctrl", "-">>)
        THEN <<"C-">> \o SubSeq(normalized, 3, Len(normalized))
        ELSE IF HasPrefix(normalized, <<"alt", "-">>)
               THEN <<"M-">> \o SubSeq(normalized, 3, Len(normalized))
               ELSE IF normalized \in DOMAIN keyAliases
                      THEN keyAliases[normalized]
                      ELSE key

\* case "attach" of handleCommand, with an argument
cmdAttach_ReplyFirst(msg, session) ==
  << reply(msg, Txt("Attached", session, "")),
     Stmt("Set", chatKey(msg), session) >>

cmdAttach(msg, session) ==
  << Stmt("Set", chatKey(msg), session),
     reply(msg, Txt("Attached", session, "")) >>

cmdDetach_KeepsWatch(msg) ==
  << Stmt("Delete", chatKey(msg), ""),
     reply(msg, Txt("Detached", <<>>, "")) >>

cmdDetach_KeepsBinding(msg) ==
  << Stmt("Watch", chatKey(msg), FALSE),
     reply(msg, Txt("Detached", <<>>, "")) >>

\* case "detach" of handleCommand
cmdDetach(msg) ==
  << Stmt("Delete", chatKey(msg), ""),
     Stmt("Watch", chatKey(msg), FALSE),
     reply(msg, Txt("Detached", <<>>, "")) >>

cmdWatch_InvalidMeansOff(msg, args) ==
  IF Len(args) = 0
    THEN << reply(msg, Txt("UsageWatch", <<>>, "")) >>
    ELSE IF ToLower(args[1]) = <<"on">>
           THEN << Stmt("Watch", chatKey(msg), TRUE),
                   reply(msg, Txt("WatchEnabled", <<>>, "")) >>
           ELSE << Stmt("Watch", chatKey(msg), FALSE),
                   reply(msg, Txt("WatchDisabled", <<>>, "")) >>

\* case "watch" of handleCommand
cmdWatch(msg, args) ==
  IF Len(args) = 0
    THEN << reply(msg, Txt("UsageWatch", <<>>, "")) >>
    ELSE LET a == ToLower(args[1]) IN
         CASE a = <<"on">>  -> << Stmt("Watch", chatKey(msg), TRUE),
                                  reply(msg, Txt("WatchEnabled", <<>>, "")) >>
           [] a = <<"off">> -> << Stmt("Watch", chatKey(msg), FALSE),
                                  reply(msg, Txt("WatchDisabled", <<>>, "")) >>
           [] OTHER         -> << reply(msg, Txt("UsageWatch", <<>>, "")) >>

\* Router.handleCommand: the statements executed for msg, given the store
\* content d, the watch flags w, whether a bridge is configured (br) and the
\* outcomes env of the external calls
handleCommand_SilentOnUnknown(msg, d, w, br, env) ==
  LET parts == Fields(TrimPrefix(msg.Text, prefix)) IN
  IF Len(parts) = 0 THEN << reply(msg, helpText) >>
  ELSE IF ToLower(parts[1]) = <<"attach">> /\ Len(parts) > 1
         THEN cmdAttach(msg, parts[2])
  ELSE IF ToLower(parts[1]) = <<"watch">> /\ Len(parts) > 1
         THEN << Stmt("Watch", chatKey(msg), TRUE),
                 reply(msg, Txt("WatchEnabled", <<>>, "")) >>
  ELSE << >>

handleCommand(msg, d, w, br, env) ==
  LET text  == TrimPrefix(msg.Text, prefix)
      parts == Fields(text)
      key   == chatKey(msg)
      got   == Get(d, key)
  IN
  IF Len(parts) = 0 THEN << reply(msg, helpText) >>
  ELSE
  LET cmd  == ToLower(parts[1])
      args == Tail(parts)
  IN
  CASE cmd = <<"help">> -> << reply(msg, helpText) >>
    [] cmd = <<"list">> ->
         IF ~br THEN << reply(msg, Txt("BridgeNotAvailable", <<>>, "")) >>
         ELSE IF env.call = "err"
           THEN << Stmt("Call", "ListSessions", <<>>),
                   reply(msg, Txt("NoSessionsFound", <<>>, "")) >>
           ELSE << Stmt("Call", "ListSessions", <<>>),
                   reply(msg, Txt("Sessions", <<>>, "")) >>
    [] cmd = <<"attach">> ->
         IF Len(args) = 0
           THEN << reply(msg, Txt("UsageAttach", <<>>, "")) >>
           ELSE cmdAttach(msg, args[1])
    [] cmd = <<"detach">> -> cmdDetach(msg)
    [] cmd = <<"status">> ->
         IF ~got[2]
           THEN << reply(msg, Txt("NotAttached", <<>>, "")) >>
           ELSE << reply(msg, Txt("Status", got[1], BoolStr(w[key]))) >>
    [] cmd = <<"snap">> ->
         IF ~got[2] THEN << reply(msg, Txt("NotAttached", <<>>, "")) >>
         ELSE IF ~br THEN << reply(msg, Txt("BridgeNotAvailable", <<>>, "")) >>
         ELSE IF env.call = "err"
           THEN << Stmt("Call", "Capture", <<got[1]>>),
                   reply(msg, Txt("CaptureFailed", <<>>, "")) >>
           ELSE << Stmt("Call", "Capture", <<got[1]>>),
                   reply(msg, Txt("Fenced", got[1], "")) >>
    [] cmd = <<"watch">> -> cmdWatch(msg, args)
    [] cmd = <<"key">> ->
         IF Len(args) = 0 THEN << reply(msg, Txt("UsageKey", <<>>, "")) >>
         ELSE IF ~got[2] THEN << reply(msg, Txt("NotAttached", <<>>, "")) >>
         ELSE IF ~br THEN << reply(msg, Txt("BridgeNotAvailable", <<>>, "")) >>
         ELSE IF env.call = "err"
           THEN << Stmt("Call", "SendRawKey", <<got[1], toTmuxKey(args[1])>>),
                   reply(msg, Txt("Error", <<>>, "")) >>
           ELSE << Stmt("Call", "SendRawKey", <<got[1], toTmuxKey(args[1])>>) >>
    [] OTHER -> << reply(msg, Txt("UnknownCommand", cmd, "help")) >>

dispatch_DetachOnError(msg, d, w, br, env) ==
  IF HasPrefix(msg.Text, prefix) THEN handleCommand(msg, d, w, br, env)
  ELSE
  LET got == Get(d, chatKey(msg)) IN
  IF ~got[2] THEN << reply(msg, Txt("NoSessionBound", <<>>, "attach")) >>
  ELSE IF env.call = "err"
    THEN << Stmt("Call", "SendKeys", <<got[1], msg.Text>>),
            Stmt("Delete", chatKey(msg), ""),
            reply(msg, Txt("ErrorSending", <<>>, "")) >>
    ELSE << Stmt("Call", "SendKeys", <<got[1], msg.Text>>) >>

dispatch_AlwaysReplies(msg, d, w, br, env) ==
  IF HasPrefix(msg.Text, prefix) THEN handleCommand(msg, d, w, br, env)
  ELSE
  LET got == Get(d, chatKey(msg)) IN
  IF ~got[2] THEN << reply(msg, Txt("NoSessionBound", <<>>, "attach")) >>
  ELSE << Stmt("Call", "SendKeys", <<got[1], msg.Text>>),
          reply(msg, Txt("ErrorSending", <<>>, "")) >>

\* Router.Handle below the gate: command dispatch or forwarding to tmux
dispatch(msg, d, w, br, env) ==
  IF HasPrefix(msg.Text, prefix) THEN handleCommand(msg, d, w, br, env)
  ELSE
  LET got == Get(d, chatKey(msg)) IN
  IF ~got[2] THEN << reply(msg, Txt("NoSessionBound", <<>>, "attach")) >>
  ELSE IF ~br THEN << reply(msg, Txt("BridgeNotAvailable", <<>>, "")) >>
  ELSE IF env.call = "err"
    THEN << Stmt("Call", "SendKeys", <<got[1], msg.Text>>),
            reply(msg, Txt("ErrorSending", <<>>, "")) >>
    ELSE << Stmt("Call", "SendKeys", <<got[1], msg.Text>>) >>

gate_AnySenderPasses(lockedSender, msg) ==
  IF msg.PreAuthorized THEN "pass"
  ELSE IF lockedSender = ""
         THEN IF msg.Text = activationCmd THEN "activate" ELSE "drop"
         ELSE "pass"

gate_IgnoresPreAuthorized(lockedSender, msg) ==
  IF lockedSender = ""
    THEN IF msg.Text = activationCmd THEN "activate" ELSE "drop"
    ELSE IF lockedSender # msg.SenderID THEN "drop" ELSE "pass"

\* The activation gate of Router.Handle, decided on the value lockedSender
\* read from r.activated[msg.Channel]
gate(lockedSender, msg) ==
  IF msg.PreAuthorized THEN "pass"
  ELSE IF lockedSender = ""
         THEN IF msg.Text = activationCmd THEN "activate" ELSE "drop"
         ELSE IF lockedSender # msg.SenderID THEN "drop" ELSE "pass"

\* the activation branch of Router.Handle
activate(msg) ==
  << Stmt("Activate", msg.Channel, msg.SenderID),
     reply(msg, Txt("Activated", <<>>, "help")) >>

\* Router.Handle
Handle(msg, act, d, w, br, env) ==
  LET g == gate(act[msg.Channel], msg) IN
  CASE g = "activate" -> activate(msg)
    [] g = "drop"     -> << >>
    [] g = "pass"     -> dispatch(msg, d, w, br, env)

\* ------------------------------------------------------------------------
\* Idle Detector (internal/tmux/idle.go, periodic + cooldown revision)
\*
\* A captured pane content is a sequence of lines, and a line is one of
\*   "text"        a line of output without a prompt
\*   "endPrompt"   a line ending in a prompt character, as "user@host:~$ "
\*   "startPrompt" a line starting with a prompt character and a blank, as
\*                 "> make all"
\*   "blank"       an empty line
\* Time is counted in poll periods; the zero time.Time is 0.
\* ------------------------------------------------------------------------
IdleTimeout == 2
MaxTime == 6

Screens ==
  { <<"text">>, <<"text", "endPrompt", "blank">>, <<"endPrompt", "text">>,
    <<"startPrompt", "text">> }

NoContent == << >>
ZeroTime == 0

\* the index of the last line that is not blank, 0 if there is none
LastNonBlank(content) ==
  IF \E i \in 1..Len(content) : content[i] # "blank"
    THEN CHOOSE i \in 1..Len(content) :
           /\ content[i] # "blank"
           /\ \A j \in (i + 1)..Len(content) : content[j] = "blank"
    ELSE 0

\* r.MatchString(text) for the configured patterns ([$#>]\s*$ and the like):
\* without the multi-line flag $ is the end of the text and \s* takes the
\* blank lines before it
MatchEnd(content) ==
  /\ LastNonBlank(content) # 0
  /\ content[LastNonBlank(content)] = "endPrompt"

\* r.MatchString(text) for the start variants "^" + pattern + \s: ^ is the
\* start of the text
MatchStart(content) ==
  /\ Len(content) > 0
  /\ content[1] = "startPrompt"

\* PromptMatcher.Match, as IdleDetector.Run calls it: on the whole capture
Match(content) == MatchEnd(content) \/ MatchStart(content)

NewDetector ==
  [lastContent |-> NoContent, lastChange |-> ZeroTime,
   lastPushed |-> NoContent, lastFired |-> ZeroTime]

IsZero(t) == t = ZeroTime

push_ForgetsPushed(d, content, now) ==
  [d EXCEPT !.lastFired = now]

\* the push closure of Run: lastFired = now; lastPushed = content; onIdle
push(d, content, now) ==
  [d EXCEPT !.lastFired = now, !.lastPushed = content]

NoPush(d) == [det |-> d, pushed |-> FALSE, via |-> "none"]

onCaptureError_ForgetsContent(d) == NoPush([d EXCEPT !.lastContent = NoContent])

\* Run: content, err := d.bridge.Capture(...); if err != nil { continue }
onCaptureError(d) == NoPush(d)

periodicStep_AfterCooldown(d, content, t) ==
  IF content # d.lastPushed /\ (IsZero(d.lastFired) \/ t - d.lastFired >= IdleTimeout)
    THEN [det |-> push(d, content, t), pushed |-> TRUE, via |-> "periodic"]
    ELSE NoPush(d)

periodicStep_Ungated(d, content, t) ==
  [det |-> push(d, content, t), pushed |-> TRUE, via |-> "periodic"]

\* case <-periodicTicker.C, after a capture without error
periodicStep(d, content, now) ==
  IF content # d.lastPushed
    THEN [det |-> push(d, content, now), pushed |-> TRUE, via |-> "periodic"]
    ELSE NoPush(d)

pollStep_NoCooldown(d, content, t) ==
  IF content # d.lastContent
    THEN NoPush([d EXCEPT !.lastContent = content, !.lastChange = t])
  ELSE IF content = d.lastPushed \/ IsZero(d.lastChange)
    THEN NoPush(d)
  ELSE LET idle == t - d.lastChange > IdleTimeout
           promptFound == Match(content)
       IN IF idle \/ promptFound
            THEN [det |-> push(d, content, t), pushed |-> TRUE,
                  via |-> IF promptFound THEN "prompt" ELSE "idle"]
            ELSE NoPush(d)

\* case <-pollTicker.C, after a capture without error
pollStep(d, content, now) ==
  IF content # d.lastContent
    THEN NoPush([d EXCEPT !.lastContent = content, !.lastChange = now])
  ELSE IF content = d.lastPushed \/ IsZero(d.lastChange)
    THEN NoPush(d)
  ELSE IF ~IsZero(d.lastFired) /\ now - d.lastFired < IdleTimeout
    THEN NoPush(d)
  ELSE LET idle == now - d.lastChange > IdleTimeout
           promptFound == Match(content)
       IN IF idle \/ promptFound
            THEN [det |-> push(d, content, now), pushed |-> TRUE,
                  via |-> IF promptFound THEN "prompt" ELSE "idle"]
            ELSE NoPush(d)

\* ------------------------------------------------------------------------
\* Watch Supervisor (watchSubscriptions of the start command)
\* ------------------------------------------------------------------------
MaxDet == 2

DetIds == 1..MaxDet

\* Router.WatchedChats: chat key -> session for every chat whose watch flag is
\* set and that has a binding
WatchedChats_AllBound(w, d) ==
  [k \in {c \in DOMAIN w : Get(d, c)[2]} |-> Get(d, k)[1]]

WatchedChats(w, d) ==
  [k \in {c \in DOMAIN w : w[c] /\ Get(d, c)[2]} |-> Get(d, k)[1]]

\* needed: the sessions of the snapshot
needed(watched) == {watched[k] : k \in DOMAIN watched}

NoDet == [session |-> <<>>, st |-> "none", snap |-> << >>]

\* the orders in which a range over a map can visit the keys in S
Orders(S) ==
  {f \in [1..Cardinality(S) -> S] : \A i, j \in DOMAIN f : f[i] = f[j] => i = j}

onIdleTargets_StartSnapshot(current, snap, s) ==
  {k \in DOMAIN snap : snap[k] = s}

onIdleTargets_AnySession(current, snap, s) == DOMAIN current

\* onIdle: the chats of the re-queried snapshot whose session is s (snap is
\* the snapshot of the tick that started the detector, which onIdle ignores)
onIdleTargets(current, snap, s) ==
  {k \in DOMAIN current : current[k] = s}

\* the message onIdle builds for a chat: SplitN(chatKey, ":", 2) gives the
\* channel and the chat ID, the text is the fenced capture
PushMsg(k, s) == [Channel |-> k[1], ChatID |-> k[2], Text |-> Txt("Fenced", s, "")]

\* onIdle: for each chat in turn, select { case outbound <- msg: default: }
RECURSIVE FanOut(_, _, _)
FanOut(order, s, acc) ==
  IF order = << >> THEN acc
  ELSE LET k == Head(order)
           room == Len(acc.q) < OutCap
       IN FanOut(Tail(order), s,
                 IF room
                   THEN [acc EXCEPT !.q = Append(@, PushMsg(k, s)),
                                    !.enq = @ \cup {k}]
                   ELSE [acc EXCEPT !.dropped = @ \cup {k},
                                    !.whenFull = @ /\ Len(acc.q) = OutCap])

\* the sessions of active that the tick cancels
Stopped_All(act, watched) == DOMAIN act

Stopped_Never(act, watched) == {}

Stopped(act, watched) == {s \in DOMAIN act : s \notin needed(watched)}

\* the sessions for which the tick starts a detector
Started(act, watched) == {s \in needed(watched) : s \notin DOMAIN act}

FreeIds(ds) == {i \in DetIds : ds[i].st = "none"}

\* the detector ids given to the started sessions
RECURSIVE Assign(_, _)
Assign(todo, free) ==
  IF todo = {} THEN << >>
  ELSE LET s == CHOOSE x \in todo : TRUE
           i == CHOOSE x \in free : \A y \in free : x <= y
           rest == Assign(todo \ {s}, free \ {i})
       IN [x \in DOMAIN rest \cup {s} |-> IF x = s THEN i ELSE rest[x]]

\* ------------------------------------------------------------------------
\* State
\* ------------------------------------------------------------------------
VARIABLES
  activated,   \* Router.activated: channel -> locked senderID ("" = none)
  watching,    \* Router.watching: chat key -> watch flag
  data,        \* Subscriptions.data: chat key -> session
  file,        \* the subscriptions file on disk
  outbound,    \* the outbound queue (chan OutboundMessage)
  bridge,      \* whether the Router was built with a tmux bridge (r.bridge # nil)
  last,        \* log of the step just taken: its input and what it did
  firstAct,    \* history: per channel, the sender of the first activation
  lastSave     \* history: outcome of the most recent save() ("none" at start)

routerVars ==
  <<activated, watching, data, file, outbound, bridge, last, firstAct, lastSave>>

VARIABLES
  gProg,       \* per goroutine: the lock operations and calls it has yet to make
  lockTab      \* per lock: its writer, its readers and the writers waiting for it

lockVars == <<gProg, lockTab>>

VARIABLES
  hPc,         \* per Handle invocation: where it stands
  hMsg,        \* per Handle invocation: its message
  hLocked      \* per Handle invocation: its local lockedSender

handlerVars == <<hPc, hMsg, hLocked, lockVars>>

VARIABLES
  pane,        \* the content of the watched tmux pane
  now,         \* the clock, in poll periods
  det,         \* IdleDetector.lastContent and the locals of Run
  ctxDone,     \* whether the detector's context is cancelled
  running,     \* whether Run has not returned
  idleLog,     \* log of the detector step just taken
  run          \* history: the current run of identical captures

idleVars == <<pane, now, det, ctxDone, running, idleLog, run>>

VARIABLES
  active,      \* watchSubscriptions: session -> its running detector
  dets         \* the detector goroutines that have not returned

supVars == <<active, dets>>

VARIABLES
  inbound,     \* the inbound queue (chan InboundMessage)
  adPc,        \* per adapter: whether its event loop is blocked in a send
  adMsg        \* per adapter: the message it is sending

inVars == <<inbound, adPc, adMsg>>

extVars == <<idleVars, supVars>>

otherVars == <<extVars, inVars>>

VARIABLES
  script       \* a conversation being replayed: its commands, how many are handled

scriptVars == <<script>>

VARIABLES
  rootDone,    \* whether the root context of runStart is cancelled
  loopPc,      \* the inbound loop of runStart: "select", "drain" or "exited"
  atCancel,    \* history: the inbound queue as the loop observed the cancellation
  drained,     \* history: the messages the loop has handled since then
  supPc,       \* watchSubscriptions: "select" or "exited"
  mgrPc,       \* Manager.Run: "select" or "exited"
  stopped      \* the adapters whose Stop has been called

loopVars == <<rootDone, loopPc, atCancel, drained, supPc, mgrPc, stopped>>

VARIABLES
  registered   \* Manager.channels: the names under which adapters are registered

muxVars == <<registered>>

auxVars == <<scriptVars, loopVars, muxVars>>

vars == <<routerVars, handlerVars, otherVars, inVars, auxVars>>

\* concurrent invocations of Router.Handle
Handlers == {1, 2}

NoMsg == [Channel |-> "", ChatID |-> "", SenderID |-> "", Text |-> <<>>,
          PreAuthorized |-> FALSE]

NoSender == "-"

\* no external call was made
NoEnv == [call |-> "none", write |-> "none"]

Log(kind, msg, route, replies, calls) ==
  [kind |-> kind, msg |-> msg, route |-> route, replies |-> replies,
   calls |-> calls, env |-> NoEnv]

ExecStmt_ReplyAlwaysQueued(s, st, env) ==
  CASE s.op = "Activate" ->
         [st EXCEPT !.activated = [@ EXCEPT ![s.a] = s.b]]
    [] s.op = "Set" ->
         LET d == SetData(st.data, s.a, s.b)
         IN  [st EXCEPT !.data = d, !.file = save(d, st.file, env.write),
                        !.lastSave = env.write, !.saves = @ + 1]
    [] s.op = "Delete" ->
         LET d == DeleteData(st.data, s.a)
         IN  [st EXCEPT !.data = d, !.file = save(d, st.file, env.write),
                        !.lastSave = env.write, !.saves = @ + 1]
    [] s.op = "Watch" ->
         [st EXCEPT !.watching = [@ EXCEPT ![s.a] = s.b]]
    [] s.op = "Reply" ->
         LET rec == [out |-> s.a, enq |-> TRUE, wr |-> st.lastSave,
                     saves |-> st.saves, fileMap |-> load(st.file),
                     mem |-> st.data]
         IN  [st EXCEPT !.outbound = Append(@, s.a),
                        !.replies  = Append(@, rec)]
    [] s.op = "Call" ->
         [st EXCEPT !.calls = Append(@, <<s.a, s.b>>)]

\* Exec: run the statements of one handler in program order on the state
\* st = [activated, watching, data, file, outbound, lastSave, saves, replies,
\* calls]; a reply is logged with the store and the file as they are when it
\* is enqueued
ExecStmt(s, st, env) ==
  CASE s.op = "Activate" ->
         [st EXCEPT !.activated = [@ EXCEPT ![s.a] = s.b]]
    [] s.op = "Set" ->
         LET d == SetData(st.data, s.a, s.b)
         IN  [st EXCEPT !.data = d, !.file = save(d, st.file, env.write),
                        !.lastSave = env.write, !.saves = @ + 1]
    [] s.op = "Delete" ->
         LET d == DeleteData(st.data, s.a)
         IN  [st EXCEPT !.data = d, !.file = save(d, st.file, env.write),
                        !.lastSave = env.write, !.saves = @ + 1]
    [] s.op = "Watch" ->
         [st EXCEPT !.watching = [@ EXCEPT ![s.a] = s.b]]
    [] s.op = "Reply" ->
         \* select { case r.outbound <- out: default: drop }
         LET room == Len(st.outbound) < OutCap
             rec  == [out |-> s.a, enq |-> room, wr |-> st.lastSave,
                      saves |-> st.saves, fileMap |-> load(st.file),
                      mem |-> st.data]
         IN  [st EXCEPT !.outbound = IF room THEN Append(@, s.a) ELSE @,
                        !.replies  = Append(@, rec)]
    [] s.op = "Call" ->
         [st EXCEPT !.calls = Append(@, <<s.a, s.b>>)]

RECURSIVE Exec(_, _, _)
Exec(ops, st, env) ==
  IF ops = << >> THEN st
  ELSE Exec(Tail(ops), ExecStmt(Head(ops), st, env), env)

\* outcomes of the external operations of one handler: a handler makes at
\* most one bridge call and at most one save()
Envs == [call : {"ok", "err"}, write : WriteOutcomes]

HasOp(ops, names) == \E i \in 1..Len(ops) : ops[i].op \in names

\* an outcome is only drawn for an operation the handler performs
EnvFits(env, ops) ==
  /\ HasOp(ops, {"Call"}) \/ env.call = "ok"
  /\ HasOp(ops, {"Set", "Delete"}) \/ env.write = "ok"

\* ------------------------------------------------------------------------
\* Inputs
\* ------------------------------------------------------------------------
\* texts of the binding and watch commands, and plain text
CmdTexts ==
  { <<"#">>, <<"#", "help">>, <<"#", "attach", " ", "dev">>,
    <<"#", "ATTACH", " ", "ops">>, <<"#", "attach">>, <<"#", "detach">>,
    <<"#", "status">>, <<"#", "watch", " ", "on">>, <<"#", "watch", " ", "OFF">>,
    <<"hello">> }

Msg(ch, chat, sender, text, pre) ==
  [Channel |-> ch, ChatID |-> chat, SenderID |-> sender, Text |-> text,
   PreAuthorized |-> pre]

\* what the adapters put on the inbound queue: telegram sets SenderID and,
\* with an allow-list, PreAuthorized; qq sets neither
\* commands of an authorized chat (telegram with an allow-list)
CmdMsgs == { Msg("telegram", "c1", "u1", t, TRUE) : t \in CmdTexts }

GateTexts == { <<"#", "im2code">>, <<"#", "watch", " ", "on">>, <<"hello">> }

\* what the adapters put on the inbound queue: telegram sets SenderID and,
\* with an allow-list, PreAuthorized; feishu never sets PreAuthorized and
\* sets SenderID only when the event carries an open_id
GateMsgs ==
  { Msg("telegram", "c1", u, t, p) : u \in {"u1", "u2"}, t \in GateTexts, p \in BOOLEAN }
  \cup { Msg("feishu", "c1", u, t, FALSE) :
            u \in {"", "u1"}, t \in {<<"#", "im2code">>, <<"#", "IM2CODE">>, <<"hello">>} }

\* ------------------------------------------------------------------------
\* Actions
\* ------------------------------------------------------------------------
\* the file left by an earlier run in which the first chat attached to dev
InitFiles_Bound == JsonFile([k \in {<<"telegram", "c1">>} |-> <<"dev">>])

InitFiles == { MissingFile, InitFiles_Bound }

\* router.New and NewSubscriptions
InitRouterFields ==
  /\ activated = [c \in Channels |-> ""]
  /\ watching = [k \in ChatKeys |-> FALSE]
  /\ file \in InitFiles
  /\ data = load(file)
  /\ outbound = << >>
  /\ bridge = TRUE
  /\ firstAct = [c \in Channels |-> NoSender]
  /\ lastSave = "none"

InitRouter ==
  /\ InitRouterFields
  /\ last = Log("Init", NoMsg, "", << >>, << >>)

\* the goroutines that use the locks of the Router and of the store: two
\* Handle calls, the Watch Supervisor and the fan-out callback of a detector
HandleGs == {"handle1", "handle2"}
WatchGs == {"supervisor", "detector"}
Goroutines == HandleGs \cup WatchGs

\* Router.activeMu (sync.Mutex), Router.mu and Subscriptions.mu (sync.RWMutex)
Locks == {"activeMu", "mu", "subs"}

NoG == ""

FreeLock == [w |-> NoG, r |-> {}, pend |-> {}]

InitLocks ==
  /\ gProg = [g \in Goroutines |-> << >>]
  /\ lockTab = [m \in Locks |-> FreeLock]

InitHandlers ==
  /\ hPc = [t \in Handlers |-> "idle"]
  /\ hMsg = [t \in Handlers |-> NoMsg]
  /\ hLocked = [t \in Handlers |-> ""]
  /\ InitLocks

\* ------------------------------------------------------------------------
\* One Idle Detector and the pane it watches
\* ------------------------------------------------------------------------
CaptureOutcomes == {"ok", "err"}

NoRun == [content |-> NoContent, start |-> ZeroTime, lastCap |-> ZeroTime,
          pushes |-> 0, dup |-> FALSE, stableAt |-> ZeroTime]

IdleStep(kind, ok, content, r, d) ==
  [kind |-> kind, ok |-> ok, content |-> content, pushed |-> r.pushed,
   via |-> r.via, changeAt |-> d.lastChange, stableAt |-> run.stableAt,
   firedAt |-> d.lastFired, pushedBefore |-> d.lastPushed,
   contentBefore |-> d.lastContent]

\* history of the captures: a run is a maximal sequence of captures
\* without error that all returned the same content
NextRun(content, t, r, d, stable) ==
  LET n == IF r.pushed THEN 1 ELSE 0
      sAt == IF r.det.lastChange # d.lastChange \/ r.pushed THEN ZeroTime
             ELSE IF stable /\ run.stableAt = ZeroTime THEN t
             ELSE run.stableAt
  IN IF content = run.content
       THEN [run EXCEPT !.lastCap = t,
                        !.pushes = IF @ + n > 2 THEN 2 ELSE @ + n,
                        !.stableAt = sAt]
       ELSE [content |-> content, start |-> t, lastCap |-> t, pushes |-> n,
             dup |-> content = d.lastPushed, stableAt |-> sAt]

\* a poll that reaches the idle/prompt test of Run
Unsuppressed(d, content, t) ==
  /\ content = d.lastContent
  /\ content # d.lastPushed
  /\ ~IsZero(d.lastChange)
  /\ ~(~IsZero(d.lastFired) /\ t - d.lastFired < IdleTimeout)

InitIdle ==
  /\ pane = <<"text">>
  /\ now = 1
  /\ det = NewDetector
  /\ ctxDone = FALSE
  /\ running = TRUE
  /\ run = NoRun
  /\ idleLog = IdleStep("init", TRUE, NoContent, NoPush(NewDetector), NewDetector)

\* the program in the pane writes output
PaneChange ==
  /\ running
  /\ \E c \in Screens \ {pane} : pane' = c
  /\ idleLog' = IdleStep("pane", TRUE, NoContent, NoPush(det), det)
  /\ UNCHANGED <<now, det, ctxDone, running, run>>
  /\ UNCHANGED <<routerVars, handlerVars, supVars, inVars, auxVars>>

\* Run: case <-pollTicker.C
Poll ==
  /\ running
  /\ now < MaxTime
  /\ now' = now + 1
  /\ \E outcome \in CaptureOutcomes :
       IF outcome = "err"
         THEN \E r \in {onCaptureError(det)} :
                /\ det' = r.det
                /\ idleLog' = IdleStep("poll", FALSE, NoContent, r, det)
                /\ UNCHANGED run
         ELSE \E r \in {pollStep(det, pane, now')} :
                /\ det' = r.det
                /\ run' = NextRun(pane, now', r, det,
                                  Unsuppressed(det, pane, now'))
                /\ idleLog' = IdleStep("poll", TRUE, pane, r, det)
  /\ UNCHANGED <<pane, ctxDone, running>>
  /\ UNCHANGED <<routerVars, handlerVars, supVars, inVars, auxVars>>

\* Run: case <-periodicTicker.C
Periodic ==
  /\ running
  /\ \E outcome \in CaptureOutcomes :
       IF outcome = "err"
         THEN \E r \in {onCaptureError(det)} :
                /\ det' = r.det
                /\ idleLog' = IdleStep("periodic", FALSE, NoContent, r, det)
                /\ UNCHANGED run
         ELSE \E r \in {periodicStep(det, pane, now)} :
                /\ det' = r.det
                /\ run' = NextRun(pane, now, r, det, FALSE)
                /\ idleLog' = IdleStep("periodic", TRUE, pane, r, det)
  /\ UNCHANGED <<pane, now, ctxDone, running>>
  /\ UNCHANGED <<routerVars, handlerVars, supVars, inVars, auxVars>>

\* the detector's context is cancelled
CancelDetector ==
  /\ ~ctxDone
  /\ ctxDone' = TRUE
  /\ idleLog' = IdleStep("cancel", TRUE, NoContent, NoPush(det), det)
  /\ UNCHANGED <<pane, now, det, running, run>>
  /\ UNCHANGED <<routerVars, handlerVars, supVars, inVars, auxVars>>

\* Run: case <-ctx.Done(): return
ReturnOnDone ==
  /\ running
  /\ ctxDone
  /\ running' = FALSE
  /\ idleLog' = IdleStep("return", TRUE, NoContent, NoPush(det), det)
  /\ UNCHANGED <<pane, now, det, ctxDone, run>>
  /\ UNCHANGED <<routerVars, handlerVars, supVars, inVars, auxVars>>

\* ------------------------------------------------------------------------
\* The Watch Supervisor and the detectors it starts
\* ------------------------------------------------------------------------
SupStep(kind, i, s, watchers, r, late) ==
  [kind |-> kind, det |-> i, session |-> s, watchers |-> watchers,
   enq |-> r.enq, dropped |-> r.dropped, whenFull |-> r.whenFull,
   late |-> late, stop |-> {}, start |-> {}]

NoFan == [q |-> << >>, enq |-> {}, dropped |-> {}, whenFull |-> TRUE]

InitSup ==
  /\ active = << >>
  /\ dets = [i \in DetIds |-> NoDet]

\* cancel(): the contexts of the detectors in ids are cancelled; a detector
\* whose context is already cancelled, or whose Run has returned, stays as it is
cancelDets(ds, ids) ==
  [i \in DetIds |-> IF i \in ids /\ ds[i].st = "live"
                      THEN [ds[i] EXCEPT !.st = "cancelled"] ELSE ds[i]]

\* watchSubscriptions: case <-ticker.C (a select may take this case also when
\* ctx.Done() is ready; a context derived from a cancelled one is cancelled)
SupervisorTick ==
  /\ supPc = "select"
  /\ \E watched \in {WatchedChats(watching, data)} :
     \E stop \in {Stopped(active, watched)} :
     \E start \in {Started(active, watched)} :
     \E free \in {FreeIds(dets) \ {active[s] : s \in DOMAIN active}} :
       /\ Cardinality(start) <= Cardinality(free)
       /\ \E ids \in {Assign(start, free)} :
            /\ active' = [s \in (DOMAIN active \ stop) \cup start |->
                            IF s \in start THEN ids[s] ELSE active[s]]
            /\ dets' = [i \in DetIds |->
                          IF \E s \in start : ids[s] = i
                            THEN [session |-> CHOOSE s \in start : ids[s] = i,
                                  st |-> IF rootDone THEN "cancelled" ELSE "live",
                                  snap |-> watched]
                            ELSE cancelDets(dets, {active[s] : s \in stop})[i]]
            /\ last' = [SupStep("tick", 0, <<>>, {}, NoFan, {}) EXCEPT
                           !.stop = stop, !.start = start]
  /\ UNCHANGED <<activated, watching, data, file, outbound, bridge, firstAct,
                 lastSave>>
  /\ UNCHANGED <<auxVars, handlerVars, idleVars, inVars>>

\* watchSubscriptions: case <-ctx.Done(): every cancel of active is called and
\* the function returns
SupervisorDone ==
  /\ supPc = "select"
  /\ rootDone
  /\ supPc' = "exited"
  /\ dets' = cancelDets(dets, {active[s] : s \in DOMAIN active})
  /\ last' = SupStep("done", 0, <<>>, {}, NoFan, {})
  /\ UNCHANGED <<activated, watching, data, file, outbound, bridge, firstAct,
                 lastSave, active>>
  /\ UNCHANGED <<scriptVars, muxVars, rootDone, loopPc, atCancel, drained,
                 mgrPc, stopped>>
  /\ UNCHANGED <<handlerVars, idleVars, inVars>>

\* a detector whose Run has not returned calls onIdle
DetectorPush(i) ==
  /\ dets[i].st \in {"live", "cancelled"}
  /\ \E s \in {dets[i].session} :
     \E targets \in {onIdleTargets(WatchedChats(watching, data), dets[i].snap, s)} :
     \E order \in Orders(targets) :
     \E r \in {FanOut(order, s, [NoFan EXCEPT !.q = outbound])} :
       /\ outbound' = r.q
       /\ last' = SupStep("push", i, s,
                             {k \in ChatKeys : watching[k] /\ k \in DOMAIN data
                                                 /\ data[k] = s},
                             r, {k \in r.enq : k \notin DOMAIN dets[i].snap})
  /\ UNCHANGED <<activated, watching, data, file, bridge, firstAct, lastSave>>
  /\ UNCHANGED <<auxVars, handlerVars, idleVars, active, dets, inVars>>

\* a cancelled detector reaches case <-ctx.Done() and returns
DetectorExit(i) ==
  /\ dets[i].st = "cancelled"
  /\ dets' = [dets EXCEPT ![i] = NoDet]
  /\ last' = SupStep("exit", i, dets[i].session, {}, NoFan, {})
  /\ UNCHANGED <<activated, watching, data, file, outbound, bridge, firstAct,
                 lastSave>>
  /\ UNCHANGED <<auxVars, handlerVars, idleVars, active, inVars>>

\* ------------------------------------------------------------------------
\* Platform adapters and the inbound queue
\* ------------------------------------------------------------------------
InCap == 1

Adapters == {"telegram", "slack"}

\* what telegram's handleUpdate (with an allow-list) and slack's handleInner
\* build from an event
AdapterMsgs(a) ==
  IF a = "telegram"
    THEN { Msg("telegram", "c1", "u1", t, TRUE) :
             t \in { <<"#", "attach", " ", "dev">>, <<"hello">> } }
    ELSE { Msg("slack", "c1", "u1", t, FALSE) :
             t \in { <<"#", "im2code">>, <<"hello">> } }

InStep(kind, a, msg, res) ==
  [kind |-> kind, adapter |-> a, msg |-> msg, res |-> res]

InitInbound ==
  /\ inbound = << >>
  /\ adPc = [a \in Adapters |-> "ready"]
  /\ adMsg = [a \in Adapters |-> NoMsg]

\* telegram handleUpdate: select { case c.inbound <- inMsg: default: drop }
handleUpdate(msg) ==
  /\ adPc["telegram"] = "ready"
  /\ LET room == Len(inbound) < InCap IN
     /\ inbound' = IF room THEN Append(inbound, msg) ELSE inbound
     /\ last' = InStep("Adapter", "telegram", msg,
                       IF room THEN "queued" ELSE "dropped")
  /\ UNCHANGED <<adPc, adMsg>>
  /\ UNCHANGED <<activated, watching, data, file, outbound, bridge, firstAct,
                 lastSave>>
  /\ UNCHANGED <<handlerVars, extVars>>

TelegramUpdate(msg) == handleUpdate(msg) /\ UNCHANGED auxVars

\* slack handleInner: c.inbound <- msg, which waits for room in the queue
handleInner(msg) ==
  /\ adPc["slack"] = "ready"
  /\ LET room == Len(inbound) < InCap IN
     /\ inbound' = IF room THEN Append(inbound, msg) ELSE inbound
     /\ adPc' = [adPc EXCEPT !["slack"] = IF room THEN "ready" ELSE "blocked"]
     /\ adMsg' = [adMsg EXCEPT !["slack"] = IF room THEN NoMsg ELSE msg]
     /\ last' = InStep("Adapter", "slack", msg,
                       IF room THEN "queued" ELSE "blocked")
  /\ UNCHANGED <<activated, watching, data, file, outbound, bridge, firstAct,
                 lastSave>>
  /\ UNCHANGED <<handlerVars, extVars>>

SlackEvent(msg) == handleInner(msg) /\ UNCHANGED auxVars

\* the blocked send of slack completes once the queue has room
SlackSendCompletes ==
  /\ adPc["slack"] = "blocked"
  /\ Len(inbound) < InCap
  /\ inbound' = Append(inbound, adMsg["slack"])
  /\ adPc' = [adPc EXCEPT !["slack"] = "ready"]
  /\ adMsg' = [adMsg EXCEPT !["slack"] = NoMsg]
  /\ last' = InStep("Adapter", "slack", adMsg["slack"], "queued late")
  /\ UNCHANGED <<activated, watching, data, file, outbound, bridge, firstAct,
                 lastSave>>
  /\ UNCHANGED <<handlerVars, extVars, auxVars>>

\* rtr.Handle(msg), with the outcomes of its external calls drawn from envs
HandleStep(msg, envs) ==
  \E env \in envs :
  \E ops \in {Handle(msg, activated, data, watching, bridge, env)} :
    /\ EnvFits(env, ops)
    /\ \E st1 \in {Exec(ops,
                         [activated |-> activated, watching |-> watching,
                          data |-> data, file |-> file, outbound |-> outbound,
                          lastSave |-> lastSave, saves |-> 0,
                          replies |-> << >>, calls |-> << >>], env)} :
       \E g \in {gate(activated[msg.Channel], msg)} :
         /\ activated' = st1.activated
         /\ watching' = st1.watching
         /\ data' = st1.data
         /\ file' = st1.file
         /\ outbound' = st1.outbound
         /\ last' = [Log("Handle", msg, g, st1.replies, st1.calls) EXCEPT
                        !.env = [call  |-> IF HasOp(ops, {"Call"})
                                             THEN env.call ELSE "none",
                                 write |-> IF HasOp(ops, {"Set", "Delete"})
                                             THEN env.write ELSE "none"]]
         /\ firstAct' = IF g = "activate" /\ firstAct[msg.Channel] = NoSender
                          THEN [firstAct EXCEPT ![msg.Channel] = msg.SenderID]
                          ELSE firstAct
         /\ lastSave' = st1.lastSave
         /\ UNCHANGED <<bridge, handlerVars, extVars>>

\* a call of rtr.Handle(msg) by itself
HandleMsgIn(msg, envs) == HandleStep(msg, envs) /\ UNCHANGED <<inVars, auxVars>>

HandleMsg(msg) == HandleMsgIn(msg, Envs)

\* the dispatch loop of Manager.Run: msg := <-m.outbound; ch.Send(msg)
DispatchOutbound ==
  /\ mgrPc = "select"
  /\ outbound # << >>
  /\ outbound' = Tail(outbound)
  /\ last' = Log("Dispatch", NoMsg, "", << >>, << >>)
  /\ UNCHANGED <<activated, watching, data, file, bridge, firstAct, lastSave>>
  /\ UNCHANGED <<handlerVars, otherVars, auxVars>>

NoScript == [cmds |-> << >>, pos |-> 0]

InitScript == script = NoScript

\* runStart: the root context is live and the inbound loop waits in its select
InitLoop ==
  /\ rootDone = FALSE
  /\ loopPc = "select"
  /\ atCancel = << >>
  /\ drained = << >>
  /\ supPc = "select"
  /\ mgrPc = "select"
  /\ stopped = {}

\* runStart registers an adapter for every platform the configuration enables
InitMux == registered = Channels

InitRest == InitHandlers /\ InitIdle /\ InitSup /\ InitInbound

Init == InitRouter /\ InitRest /\ InitScript /\ InitLoop /\ InitMux

HandleCmd == \E msg \in CmdMsgs : HandleMsg(msg)

Next ==
  \/ HandleCmd
  \/ DispatchOutbound

\* the Router serving an authorized chat
Spec == Init /\ [][Next]_vars

HandleGate == \E msg \in GateMsgs : HandleMsg(msg)

NextGate ==
  \/ HandleGate
  \/ DispatchOutbound

\* the Router behind the activation gate
SpecGate == Init /\ [][NextGate]_vars

\* ------------------------------------------------------------------------
\* Router.Handle called concurrently: one step per critical section of
\* activeMu, the rest of the handler as one step
\* ------------------------------------------------------------------------
RaceMsgs ==
  { Msg("telegram", "c1", u, t, FALSE) :
      u \in {"u1", "u2"}, t \in {<<"#", "im2code">>, <<"hello">>} }

\* a caller enters Handle(msg)
HBegin(t, msg) ==
  /\ hPc[t] = "idle"
  /\ hPc' = [hPc EXCEPT ![t] = IF msg.PreAuthorized THEN "dispatch" ELSE "gate"]
  /\ hMsg' = [hMsg EXCEPT ![t] = msg]
  /\ last' = Log("Begin", msg, "", << >>, << >>)
  /\ UNCHANGED <<activated, watching, data, file, outbound, bridge, firstAct,
                 lastSave, hLocked, lockVars, otherVars, auxVars>>

\* activeMu.Lock(); lockedSender := r.activated[msg.Channel]; activeMu.Unlock()
\* and the branch taken on lockedSender
HGateRead(t) ==
  /\ hPc[t] = "gate"
  /\ LET g == gate(activated[hMsg[t].Channel], hMsg[t]) IN
     /\ hLocked' = [hLocked EXCEPT ![t] = activated[hMsg[t].Channel]]
     /\ hPc' = [hPc EXCEPT ![t] =
                  CASE g = "activate" -> "write"
                    [] g = "drop"     -> "idle"
                    [] g = "pass"     -> "dispatch"]
     /\ last' = Log("GateRead", hMsg[t], g, << >>, << >>)
  /\ UNCHANGED <<activated, watching, data, file, outbound, bridge, firstAct,
                 lastSave, hMsg, lockVars, otherVars, auxVars>>

\* activeMu.Lock(); r.activated[msg.Channel] = msg.SenderID; activeMu.Unlock()
HGateWrite(t) ==
  /\ hPc[t] = "write"
  /\ activated' = [activated EXCEPT ![hMsg[t].Channel] = hMsg[t].SenderID]
  /\ firstAct' = IF firstAct[hMsg[t].Channel] = NoSender
                   THEN [firstAct EXCEPT ![hMsg[t].Channel] = hMsg[t].SenderID]
                   ELSE firstAct
  /\ hPc' = [hPc EXCEPT ![t] = "confirm"]
  /\ last' = Log("GateWrite", hMsg[t], "activate", << >>, << >>)
  /\ UNCHANGED <<watching, data, file, outbound, bridge, lastSave, hMsg, hLocked,
                 lockVars, otherVars, auxVars>>

\* the rest of an invocation: the confirmation of an activation, or the
\* dispatch of a message that passed the gate
HFinish(t) ==
  /\ hPc[t] \in {"confirm", "dispatch"}
  /\ \E env \in Envs :
     \E ops \in {IF hPc[t] = "confirm"
                   THEN << reply(hMsg[t], Txt("Activated", <<>>, "help")) >>
                   ELSE dispatch(hMsg[t], data, watching, bridge, env)} :
       /\ EnvFits(env, ops)
       /\ \E st1 \in {Exec(ops,
                         [activated |-> activated, watching |-> watching,
                          data |-> data, file |-> file, outbound |-> outbound,
                          lastSave |-> lastSave, saves |-> 0,
                          replies |-> << >>, calls |-> << >>], env)} :
            /\ watching' = st1.watching
            /\ data' = st1.data
            /\ file' = st1.file
            /\ outbound' = st1.outbound
            /\ lastSave' = st1.lastSave
            /\ last' = Log("Finish", hMsg[t], hPc[t], st1.replies, st1.calls)
  /\ hPc' = [hPc EXCEPT ![t] = "idle"]
  /\ UNCHANGED <<activated, bridge, firstAct, hMsg, hLocked, lockVars, otherVars,
                 auxVars>>

HBeginAny == \E t \in Handlers, msg \in RaceMsgs : HBegin(t, msg)
HGateReadAny == \E t \in Handlers : HGateRead(t)
HGateWriteAny == \E t \in Handlers : HGateWrite(t)
HFinishAny == \E t \in Handlers : HFinish(t)

NextRace ==
  \/ HBeginAny
  \/ HGateReadAny
  \/ HGateWriteAny
  \/ HFinishAny
  \/ DispatchOutbound

SpecRace == Init /\ [][NextRace]_vars

\* one Idle Detector polling one pane
NextIdle ==
  \/ PaneChange
  \/ Poll
  \/ Periodic
  \/ CancelDetector
  \/ ReturnOnDone

SpecIdle == Init /\ [][NextIdle]_vars

\* commands of two chats: one toggles its watch flag, one attaches and watches
WatchMsgs ==
  { Msg("telegram", "c1", "u1", t, TRUE) :
      t \in { <<"#", "watch", " ", "on">>, <<"#", "watch", " ", "off">> } }
  \cup
  { Msg("telegram", "c2", "u1", t, TRUE) :
      t \in { <<"#", "attach", " ", "dev">>, <<"#", "watch", " ", "on">> } }

\* the calls and the file writes of these commands succeed
OkEnvs == {env \in Envs : env.call = "ok" /\ env.write = "ok"}

HandleWatch == \E msg \in WatchMsgs : HandleMsgIn(msg, OkEnvs)
DetectorPushAny == \E i \in DetIds : DetectorPush(i)
DetectorExitAny == \E i \in DetIds : DetectorExit(i)

NextWatch ==
  \/ HandleWatch
  \/ SupervisorTick
  \/ DetectorPushAny
  \/ DetectorExitAny
  \/ DispatchOutbound

\* the Router, the Watch Supervisor and its detectors
\* the first chat is bound to a session when the program starts
InitWatch == Init /\ file # MissingFile

SpecWatch == InitWatch /\ [][NextWatch]_vars

\* the inbound loop of runStart: case msg := <-inbound: rtr.Handle(msg)
InboundHandle ==
  /\ loopPc = "select"
  /\ inbound # << >>
  /\ HandleStep(Head(inbound), OkEnvs)
  /\ inbound' = Tail(inbound)
  /\ UNCHANGED <<adPc, adMsg, auxVars>>

TelegramUpdateAny == \E msg \in AdapterMsgs("telegram") : TelegramUpdate(msg)
SlackEventAny == \E msg \in AdapterMsgs("slack") : SlackEvent(msg)

NextInbound ==
  \/ TelegramUpdateAny
  \/ SlackEventAny
  \/ SlackSendCompletes
  \/ InboundHandle
  \/ DispatchOutbound

\* two adapters, the inbound queue and the loop that feeds the Router
SpecInbound == Init /\ [][NextInbound]_vars

\* ------------------------------------------------------------------------
\* Activation gate
\* ------------------------------------------------------------------------
IsHandle(l) == l.kind = "Handle"

Activated1(l) ==
  /\ Len(l.replies) = 1
  /\ l.replies[1].out.Text.t = "Activated"

\* C1: on a channel that starts unlocked, every non-preAuthorized message
\* before the first activation message gets no reply, the first activation
\* message locks the channel to its sender and gets exactly one confirmation
\* reply, and from then on a message of any other sender gets no reply.
C1_ActivationLocksToFirstSender ==
  [][ (IsHandle(last') /\ ~last'.msg.PreAuthorized) =>
        LET c == last'.msg.Channel
            m == last'.msg
        IN  /\ (firstAct[c] = NoSender /\ m.Text # activationCmd)
                 => last'.replies = << >>
            /\ (firstAct[c] = NoSender /\ m.Text = activationCmd)
                 => Activated1(last') /\ firstAct'[c] = m.SenderID
            /\ (firstAct[c] # NoSender /\ m.SenderID # firstAct[c])
                 => last'.replies = << >> ]_vars

\* the gate rejects msg when the channel's activation is act
Rejected(act, m) ==
  /\ ~m.PreAuthorized
  /\ \/ act[m.Channel] = "" /\ m.Text # activationCmd
     \/ act[m.Channel] # "" /\ act[m.Channel] # m.SenderID

\* C3: a non-preAuthorized message rejected by the activation gate has no
\* effect: no reply, no bridge call, and activation state, bindings, watch
\* flags, file and outbound queue are unchanged.
C3_RejectedHasNoEffect ==
  [][ (IsHandle(last') /\ Rejected(activated, last'.msg)) =>
        /\ last'.replies = << >>
        /\ last'.calls = << >>
        /\ UNCHANGED <<activated, watching, data, file, outbound>> ]_vars

\* a message of another sender was rejected on a locked channel while a
\* binding exists
C3_Witness ==
  /\ IsHandle(last)
  /\ last.route = "drop"
  /\ activated[last.msg.Channel] \notin {"", last.msg.SenderID}
  /\ data # << >>

\* C4: a preAuthorized message is dispatched (a reply or a bridge call is
\* made for it) whatever the channel's activation state, and handling it
\* leaves the activation state unchanged.
C4_PreAuthorizedBypassesGate ==
  [][ (IsHandle(last') /\ last'.msg.PreAuthorized) =>
        /\ activated' = activated
        /\ last'.route = "pass"
        /\ last'.replies # << >> \/ last'.calls # << >> ]_vars

\* a preAuthorized message was forwarded to tmux on a channel locked to
\* another sender
C4_Witness ==
  /\ IsHandle(last)
  /\ last.msg.PreAuthorized
  /\ activated[last.msg.Channel] \notin {"", last.msg.SenderID}
  /\ last.calls # << >>

\* ------------------------------------------------------------------------
\* Persistence before reply
\* ------------------------------------------------------------------------
IsConfirm(r) == r.out.Text.t \in {"Attached", "Detached"}

ReplyKey(r) == <<r.out.Channel, r.out.ChatID>>

C2_LockedNeverChanges ==
  [][ \A c \in Channels : activated[c] # "" => activated'[c] = activated[c] ]_vars

\* ------------------------------------------------------------------------
\* Idle detection
\* ------------------------------------------------------------------------
\* the run of identical captures has lasted longer than the idle timeout
LongRun == run.content # NoContent /\ run.lastCap - run.start > IdleTimeout

\* some line of the content matches a prompt pattern, in its end-anchored or
\* in its start-anchored form
HasPromptLine(content) ==
  \E i \in 1..Len(content) : content[i] \in {"endPrompt", "startPrompt"}

\* C5 (as stated): a run of identical captures that lasts longer than the idle
\* timeout has produced exactly one push of that content, and no run produces
\* more than one.
C5_ExactlyOnePushPerRun ==
  /\ run.pushes <= 1
  /\ LongRun => run.pushes = 1

\* C5 (amended): a run of identical captures produces no push when its content
\* equals the content the detector pushed last, and otherwise at most one
\* push, which has been made once the run has lasted longer than the idle
\* timeout.
C5_OnePushUnlessAlreadyPushed ==
  /\ run.pushes <= 1
  /\ run.dup => run.pushes = 0
  /\ (LongRun /\ ~run.dup) => run.pushes = 1

\* a run longer than the idle timeout whose content was pushed once, by the
\* idle-timeout trigger
C5_Witness ==
  /\ LongRun
  /\ ~run.dup
  /\ run.pushes = 1
  /\ idleLog.kind = "poll" /\ idleLog.pushed /\ idleLog.via = "idle"

\* C6: content that holds a prompt line and that a poll has found stable
\* before the idle timeout elapsed is never left to the idle-timeout trigger:
\* no poll pushes it only because the timeout has elapsed.
C6_PromptPushedBeforeTimeout ==
  ~ /\ idleLog.kind = "poll"
    /\ idleLog.pushed
    /\ idleLog.via = "idle"
    /\ HasPromptLine(idleLog.content)
    /\ idleLog.stableAt # ZeroTime
    /\ idleLog.stableAt - idleLog.changeAt < IdleTimeout

\* ------------------------------------------------------------------------
\* Watch Supervisor
\* ------------------------------------------------------------------------
\* C7: at every moment at most one Idle Detector run loop is live for a
\* session name (a cancelled detector counts until its Run has returned).
C7_OneLiveDetectorPerSession ==
  \A i, j \in DetIds :
    (/\ dets[i].st \in {"live", "cancelled"}
     /\ dets[j].st \in {"live", "cancelled"}
     /\ dets[i].session = dets[j].session) => i = j

IsPush(l) == l.kind = "push"

\* C8 (as stated): a push of a running detector is enqueued for every chat
\* that watches the detector's session at that moment, the chats that started
\* watching after the detector was started included.
C8_PushReachesEveryWatcher ==
  IsPush(last) => last.watchers \subseteq last.enq

\* C8 (amended): a push of a running detector is offered to every chat that
\* watches the detector's session at that moment, late subscribers included,
\* and to no other chat; each is enqueued unless the outbound queue is full
\* when its turn comes, and then its message is dropped.
C8_PushOfferedToEveryWatcher ==
  IsPush(last) =>
    /\ last.enq \cup last.dropped = last.watchers
    /\ last.enq \cap last.dropped = {}
    /\ last.whenFull
    /\ \A k \in last.enq :
         \E n \in 1..Len(outbound) : outbound[n] = PushMsg(k, last.session)

\* a chat that was not watching when the detector was started receives the
\* push of that same detector
C8_Witness ==
  /\ IsPush(last)
  /\ last.late # {}
  /\ dets[last.det].st = "live"
  /\ DOMAIN dets[last.det].snap # {}
  /\ DOMAIN dets[last.det].snap \subseteq last.watchers

\* ------------------------------------------------------------------------
\* Queues
\* ------------------------------------------------------------------------
\* C9: no producer is ever stalled by a full queue: no adapter's event loop
\* is blocked in a send on the inbound queue.
C9_NoProducerBlocks ==
  \A a \in Adapters : adPc[a] # "blocked"

\* ------------------------------------------------------------------------
\* The Subscription Store by itself
\* ------------------------------------------------------------------------
StoreKeys == { <<"telegram", "c1">>, <<"telegram", "c2">>, <<"slack", "c1">> }

StoreLog(kind, key, session, had) ==
  [kind |-> kind, key |-> key, session |-> session, had |-> had]

StoreRest ==
  UNCHANGED <<activated, watching, outbound, bridge, firstAct, handlerVars,
              otherVars, auxVars>>

\* Subscriptions.Set(key, session): s.data[key] = session; s.save()
StoreSet(key, session) ==
  \E outcome \in WriteOutcomes :
    /\ data' = SetData(data, key, session)
    /\ file' = save(data', file, outcome)
    /\ lastSave' = outcome
    /\ last' = StoreLog("Set", key, session, key \in DOMAIN data)
    /\ StoreRest

\* Subscriptions.Delete(key): delete(s.data, key); s.save()
StoreDelete(key) ==
  \E outcome \in WriteOutcomes :
    /\ data' = DeleteData(data, key)
    /\ file' = save(data', file, outcome)
    /\ lastSave' = outcome
    /\ last' = StoreLog("Delete", key, << >>, key \in DOMAIN data)
    /\ StoreRest

\* a second store is constructed from the same file while the first one
\* answers All()
StoreReopen ==
  /\ last' = [kind |-> "Reopen", loaded |-> NewSubscriptions(file),
              all |-> All(data)]
  /\ UNCHANGED <<data, file, lastSave>>
  /\ StoreRest

StoreSetAny == \E key \in StoreKeys, session \in Sessions : StoreSet(key, session)
StoreDeleteAny == \E key \in StoreKeys : StoreDelete(key)

NextStore ==
  \/ StoreSetAny
  \/ StoreDeleteAny
  \/ StoreReopen

\* one store, mutated by one caller at a time, and its file
SpecStore == Init /\ [][NextStore]_vars

\* C11: immediately after Set(K, S), Get(K) returns (S, true); immediately
\* after Delete(K), Get(K) returns ("", false); neither operation changes what
\* Get returns for any other key.
C11_SetGetDelete ==
  [][ /\ last'.kind = "Set" => Get(data', last'.key) = <<last'.session, TRUE>>
      /\ last'.kind = "Delete" => Get(data', last'.key) = << <<>>, FALSE >>
      /\ last'.kind \in {"Set", "Delete"} =>
            \A k \in ChatKeys \ {last'.key} : Get(data', k) = Get(data, k)
    ]_vars

\* a bound key was deleted while another key stays bound
C11_Witness ==
  /\ last.kind = "Delete"
  /\ last.had
  /\ DOMAIN data # {}

MaxScript == 2

AttachText(session) == <<"#", "attach", " ">> \o session
DetachText == <<"#", "detach">>
StatusText == <<"#", "status">>
WatchText(a) == <<"#", "watch", " ", a>>

ScriptTexts ==
  { AttachText(s) : s \in Sessions } \cup
  { DetachText, StatusText, WatchText("on"), WatchText("off") }

\* attach dev, status, watch on, detach, status
Scenario ==
  << AttachText(<<"dev">>), StatusText, WatchText("on"), DetachText, StatusText >>

\* watch on, detach, attach dev, status
DetachScenario ==
  << WatchText("on"), DetachText, AttachText(<<"dev">>), StatusText >>

Scripts ==
  {Scenario, DetachScenario} \cup
  UNION { [1..n -> ScriptTexts] : n \in 1..MaxScript }

ScriptChat == <<"telegram", "c1">>

ScriptMsg(t) == Msg(ScriptChat[1], ScriptChat[2], "u1", t, TRUE)

InitScripts ==
  /\ InitRouter
  /\ InitRest
  /\ InitLoop
  /\ InitMux
  /\ script \in [cmds : Scripts, pos : {0}]

\* the chat's next command is handled
ScriptStep ==
  /\ script.pos < Len(script.cmds)
  /\ HandleStep(ScriptMsg(script.cmds[script.pos + 1]), Envs)
  /\ script' = [script EXCEPT !.pos = @ + 1]
  /\ UNCHANGED <<inVars, loopVars, muxVars>>

NextScript ==
  \/ ScriptStep
  \/ DispatchOutbound

SpecScript == InitScripts /\ [][NextScript]_vars

\* the command handled last, << >> before the first
LastCmd == IF script.pos = 0 THEN << >> ELSE script.cmds[script.pos]

\* the command handled before the last one
PrevCmd == IF script.pos < 2 THEN << >> ELSE script.cmds[script.pos - 1]

\* C13: attach is idempotent and overwriting: after attach S the chat has
\* exactly one binding, equal to S, whether the command before it was
\* attach S, attach of another session, or anything else.
C13_AttachOverwrites ==
  \A s \in Sessions :
    LastCmd = AttachText(s) =>
      /\ Get(data, ScriptChat) = <<s, TRUE>>
      /\ Cardinality({k \in DOMAIN data : k = ScriptChat}) = 1
      /\ Cardinality({i \in 1..Len(Marshal(data)) :
                        Marshal(data)[i][1] = ScriptChat}) = 1

\* attach dev was followed by attach ops
C13_Witness ==
  /\ PrevCmd = AttachText(<<"dev">>)
  /\ LastCmd = AttachText(<<"ops">>)
  /\ Get(data, ScriptChat) = << <<"ops">>, TRUE >>

\* the replies of the conversation attach dev, status, watch on, detach, status
ScenarioReplies ==
  << Txt("Attached", <<"dev">>, ""), Txt("Status", <<"dev">>, "false"),
     Txt("WatchEnabled", <<>>, ""), Txt("Detached", <<>>, ""),
     Txt("NotAttached", <<>>, "") >>

\* the texts of the replies made by the step just taken
ReplyTexts(l) == [i \in 1..Len(l.replies) |-> l.replies[i].out.Text]

\* C14: the commands attach dev, status, watch on, detach, status are answered
\* in order by: a confirmation naming dev, a status reporting session dev and
\* watch false, a watch confirmation, a detach confirmation, and a status
\* reporting that the chat is not attached. In general a status reply reports
\* the chat's current binding with its current watch flag, or that the chat
\* is not attached.
C14_ScenarioAndStatus ==
  IsHandle(last) =>
    /\ script.cmds = Scenario =>
          ReplyTexts(last) = << ScenarioReplies[script.pos] >>
    /\ LastCmd = StatusText =>
          ReplyTexts(last) =
            IF ScriptChat \in DOMAIN data
              THEN << Txt("Status", data[ScriptChat], BoolStr(watching[ScriptChat])) >>
              ELSE << Txt("NotAttached", <<>>, "") >>

\* the conversation of the claim has been answered to its end
C14_Witness ==
  /\ IsHandle(last)
  /\ script.cmds = Scenario
  /\ script.pos = 5
  /\ ReplyTexts(last) = << Txt("NotAttached", <<>>, "") >>

\* C15: after any sequence of attach and watch commands, in whatever order,
\* WatchedChats() returns exactly the map {K -> S : the watch flag of K is
\* true and K is bound to S}; a map it returned earlier (the one the
\* supervisor took when it started a detector) is a snapshot that later
\* commands do not alter.
C15_WatchedChatsExact ==
  [][ /\ \A k \in ChatKeys :
           LET wc == WatchedChats(watching', data') IN
           /\ k \in DOMAIN wc <=> (watching'[k] /\ k \in DOMAIN data')
           /\ k \in DOMAIN wc => wc[k] = data'[k]
      /\ last'.kind = "tick" =>
           \A i \in DetIds :
             (dets[i].st = "none" /\ dets'[i].st = "live") =>
               dets'[i].snap = WatchedChats(watching, data)
      /\ IsHandle(last') => \A i \in DetIds : dets'[i].snap = dets[i].snap
    ]_vars

\* one chat has its flag on without a binding, and the snapshot taken for a
\* detector differs from what WatchedChats() returns now
C15_Witness ==
  /\ watching[<<"telegram", "c2">>]
  /\ <<"telegram", "c2">> \notin DOMAIN data
  /\ \E i \in DetIds :
       /\ dets[i].st = "live"
       /\ dets[i].snap # WatchedChats(watching, data)
       /\ dets[i].snap # << >>

\* ------------------------------------------------------------------------
\* Shutdown of the inbound loop
\* ------------------------------------------------------------------------
LoopRouterRest ==
  UNCHANGED <<activated, watching, data, file, outbound, bridge, firstAct,
              lastSave, handlerVars, extVars, inVars, scriptVars, muxVars,
              supPc, mgrPc, stopped>>

\* signal.NotifyContext: the root context is cancelled by SIGINT / SIGTERM, and
\* with it the contexts derived from it (context.WithCancel(ctx) of the
\* detectors)
RootCancel ==
  /\ ~rootDone
  /\ rootDone' = TRUE
  /\ dets' = cancelDets(dets, DetIds)
  /\ last' = [kind |-> "Cancel"]
  /\ UNCHANGED <<loopPc, atCancel, drained, supPc, mgrPc, stopped>>
  /\ UNCHANGED <<activated, watching, data, file, outbound, bridge, firstAct,
                 lastSave, handlerVars, idleVars, active, inVars, scriptVars,
                 muxVars>>

\* the outer select takes case <-ctx.Done()
LoopObserveDone ==
  /\ loopPc = "select"
  /\ rootDone
  /\ loopPc' = "drain"
  /\ atCancel' = inbound
  /\ drained' = << >>
  /\ last' = [kind |-> "ObserveDone", queue |-> inbound]
  /\ UNCHANGED rootDone
  /\ LoopRouterRest

drainStep_ReturnsAtOnce(queue) == "return"

\* the inner select: case msg := <-inbound: rtr.Handle(msg); default: return
drainStep(queue) == IF queue = << >> THEN "return" ELSE "handle"

\* the drain loop handles a message that is buffered
LoopDrain ==
  /\ loopPc = "drain"
  /\ inbound # << >>
  /\ drainStep(inbound) = "handle"
  /\ HandleStep(Head(inbound), OkEnvs)
  /\ inbound' = Tail(inbound)
  /\ drained' = IF Len(drained) < Len(atCancel)
                  THEN Append(drained, Head(inbound)) ELSE drained
  /\ UNCHANGED <<adPc, adMsg, rootDone, loopPc, atCancel, scriptVars, muxVars,
                 supPc, mgrPc, stopped>>

\* the drain loop returns: the goroutine of the inbound loop ends
LoopExit ==
  /\ loopPc = "drain"
  /\ drainStep(inbound) = "return"
  /\ loopPc' = "exited"
  /\ last' = [kind |-> "LoopExit", queue |-> inbound]
  /\ UNCHANGED <<rootDone, atCancel, drained>>
  /\ LoopRouterRest

NextShutdown ==
  \/ TelegramUpdateAny
  \/ SlackEventAny
  \/ SlackSendCompletes
  \/ InboundHandle
  \/ RootCancel
  \/ LoopObserveDone
  \/ LoopDrain
  \/ LoopExit
  \/ DispatchOutbound

\* the adapters, the inbound queue and its loop, up to and after a shutdown
SpecShutdown == Init /\ [][NextShutdown]_vars

IsPrefix(a, b) == Len(a) <= Len(b) /\ SubSeq(b, 1, Len(a)) = a

\* C16: on shutdown every message that was buffered in the inbound queue when
\* the inbound loop observed the cancellation has been passed to Router.Handle,
\* in queue order, when the loop exits, and the loop exits only when it finds
\* the queue empty.
C16_DrainedBeforeExit ==
  /\ loopPc = "exited" => drained = atCancel
  /\ loopPc = "drain" => IsPrefix(drained, atCancel)
  /\ last.kind = "LoopExit" => last.queue = << >>

\* the loop has exited after it observed the cancellation with a message
\* buffered
C16_Witness ==
  /\ loopPc = "exited"
  /\ atCancel # << >>
  /\ drained = atCancel

\* ------------------------------------------------------------------------
\* Channel multiplexer (channel.Manager)
\* ------------------------------------------------------------------------
\* NewManager and the Register calls made before Run
InitManager ==
  /\ InitRouter
  /\ InitRest
  /\ InitScript
  /\ InitLoop
  /\ registered \in SUBSET Channels

OutMsgs ==
  { [Channel |-> c, ChatID |-> i, Text |-> Txt("Help", <<>>, "")] :
      c \in Channels, i \in ChatIDs }

MuxRest ==
  UNCHANGED <<activated, watching, data, file, bridge, firstAct, lastSave,
              handlerVars, otherVars, scriptVars, loopVars, registered>>

\* a producer puts a message on the outbound queue: outbound <- msg
MuxProduce(msg) ==
  /\ Len(outbound) < OutCap
  /\ outbound' = Append(outbound, msg)
  /\ last' = [kind |-> "Produce", msg |-> msg]
  /\ MuxRest

dispatchSends_ToAll(reg, msg) ==
  LET order == CHOOSE f \in Orders(reg) : TRUE
  IN  [i \in 1..Len(order) |-> [to |-> order[i], msg |-> msg]]

\* Manager.Run, case msg := <-m.outbound: the Send calls made for msg, each
\* with the name of the adapter called
dispatchSends(reg, msg) ==
  IF msg.Channel \notin reg THEN << >>
  ELSE << [to |-> msg.Channel, msg |-> msg] >>

SendOutcomes == {"ok", "err"}

\* Manager.Run takes a message from the outbound queue; an error of Send is
\* logged
ManagerDispatch ==
  /\ mgrPc = "select"
  /\ outbound # << >>
  /\ outbound' = Tail(outbound)
  /\ \E res \in SendOutcomes :
       /\ res = "ok" \/ dispatchSends(registered, Head(outbound)) # << >>
       /\ last' = [kind |-> "MuxDispatch", msg |-> Head(outbound),
                   sends |-> dispatchSends(registered, Head(outbound)),
                   res |-> res]
  /\ MuxRest

MuxProduceAny == \E msg \in OutMsgs : MuxProduce(msg)

NextMux ==
  \/ MuxProduceAny
  \/ ManagerDispatch

\* the multiplexer, its registered adapters and the outbound queue
SpecMux == InitManager /\ [][NextMux]_vars

\* C17: the dispatch loop passes each message it takes from the outbound
\* queue to Send of the adapter registered under the message's platform,
\* once, and to no other adapter; a message that names a platform without a
\* registered adapter is dropped without a Send call.
C17_SentToItsAdapterOnce ==
  last.kind = "MuxDispatch" =>
    IF last.msg.Channel \in registered
      THEN last.sends = << [to |-> last.msg.Channel, msg |-> last.msg] >>
      ELSE last.sends = << >>

\* a message was sent while another adapter is registered as well
C17_Witness ==
  /\ last.kind = "MuxDispatch"
  /\ Len(last.sends) = 1
  /\ Cardinality(registered) >= 2

\* ------------------------------------------------------------------------
\* Key names
\* ------------------------------------------------------------------------
MaxKeyLen == 3

\* the pieces key names are made of here
KeySyms ==
  { "ctrl", "Ctrl", "CTRL", "alt", "Alt", "-", "+", "c", "C", "X", "pgup",
    "PgUp", "esc", "ESC", "bs", "Enter", "F1" }

KeyNames == UNION { [1..n -> KeySyms] : n \in 1..MaxKeyLen }

KeysRest ==
  UNCHANGED <<activated, watching, data, file, outbound, bridge, firstAct,
              lastSave, handlerVars, otherVars, auxVars>>

\* a key command arrives with the key name args[0]
InitKeys ==
  /\ InitRouterFields
  /\ InitRest
  /\ InitScript
  /\ InitLoop
  /\ InitMux
  /\ \E key \in KeyNames : last = [kind |-> "KeyArg", key |-> key]

\* toTmuxKey(args[0]) as called for the key command
TranslateKey ==
  /\ last.kind = "KeyArg"
  /\ last' = [kind |-> "Key", key |-> last.key, out |-> toTmuxKey(last.key)]
  /\ KeysRest

NextKeys == TranslateKey

SpecKeys == InitKeys /\ [][NextKeys]_vars

\* spellings of the modifiers and of the separator
CtrlSpellings == {"ctrl", "Ctrl", "CTRL"}
AltSpellings == {"alt", "Alt"}
Separators == {"-", "+"}

\* spellings of aliases and the tmux key each stands for
AliasSpellings ==
  [pgup |-> {"pgup", "PgUp"}, esc |-> {"esc", "ESC"}, bs |-> {"bs"}]

AliasTmuxName == [pgup |-> "PPage", esc |-> "Escape", bs |-> "BSpace"]

HasModifier(key, spellings) ==
  Len(key) >= 2 /\ key[1] \in spellings /\ key[2] \in Separators

\* the rest of a key name after modifier and separator, in lower case and
\* with '-' for '+'
LowerRest(key) ==
  ReplacePlus([i \in 1..(Len(key) - 2) |-> LowerKeySym(key[i + 2])])

\* C18: key alias translation ignores case and takes '+' for '-': ctrl-c,
\* Ctrl+C and CTRL-c all give C-c; alt-X gives the meta key M-x; a named alias
\* (pgup, esc, bs) gives its tmux key name; any other token is passed through
\* verbatim, unchanged in case.
C18_KeyTranslation ==
  last.kind = "Key" =>
    LET key == last.key
        out == last.out
    IN
    /\ toTmuxKey(<<"ctrl", "-", "c">>) = <<"C-", "c">>
    /\ toTmuxKey(<<"Ctrl", "+", "C">>) = <<"C-", "c">>
    /\ toTmuxKey(<<"CTRL", "-", "c">>) = <<"C-", "c">>
    /\ toTmuxKey(<<"alt", "-", "X">>) = <<"M-", "x">>
    /\ IF HasModifier(key, CtrlSpellings) THEN out = <<"C-">> \o LowerRest(key)
       ELSE IF HasModifier(key, AltSpellings) THEN out = <<"M-">> \o LowerRest(key)
       ELSE IF Len(key) = 1 /\ \E a \in DOMAIN AliasSpellings : key[1] \in AliasSpellings[a]
         THEN \E a \in DOMAIN AliasSpellings :
                key[1] \in AliasSpellings[a] /\ out = <<AliasTmuxName[a]>>
       ELSE out = key

\* Ctrl+C has been translated
C18_Witness ==
  /\ last.kind = "Key"
  /\ last.key = <<"Ctrl", "+", "C">>
  /\ last.out = <<"C-", "c">>

\* ------------------------------------------------------------------------
\* Commands the Router does not know
\* ------------------------------------------------------------------------
\* texts whose command is none of help, list, attach, detach, status, snap,
\* watch and key, each with the command name in lower case
UnknownCmds ==
  { << <<"#", "foobar">>, <<"foobar">> >>,
    << <<"#", "FooBar">>, <<"foobar">> >>,
    << <<"#", "foobar", " ", "dev">>, <<"foobar">> >>,
    << <<"#", " ", "attached">>, <<"attached">> >> }

\* texts that are the prefix and nothing else but blanks
PrefixOnlyTexts == { <<"#">>, <<"#", " ">> }

UnknownTexts ==
  { c[1] : c \in UnknownCmds } \cup PrefixOnlyTexts \cup
  { AttachText(<<"dev">>), WatchText("on") }

UnknownMsgs == { ScriptMsg(t) : t \in UnknownTexts }

HandleUnknown == \E msg \in UnknownMsgs : HandleMsgIn(msg, OkEnvs)

NextUnknown ==
  \/ HandleUnknown
  \/ DispatchOutbound

SpecUnknown == Init /\ [][NextUnknown]_vars

\* C19: a command whose name is not a bridge command is answered by one reply
\* that carries the command name (in lower case) and refers to the help
\* command, and bindings, watch flags and activation state stay as they are;
\* a message that is the prefix alone is answered by the help text.
C19_UnknownCommand ==
  [][ IsHandle(last') =>
        /\ \A c \in UnknownCmds :
             last'.msg.Text = c[1] =>
               /\ ReplyTexts(last') = << Txt("UnknownCommand", c[2], "help") >>
               /\ last'.calls = << >>
               /\ UNCHANGED <<data, file, watching, activated>>
        /\ last'.msg.Text \in PrefixOnlyTexts =>
               /\ ReplyTexts(last') = << helpText >>
               /\ last'.calls = << >>
               /\ UNCHANGED <<data, file, watching, activated>>
    ]_vars

\* an unknown command of a bound and watched chat has been answered
C19_Witness ==
  /\ IsHandle(last)
  /\ last.msg.Text = <<"#", "FooBar">>
  /\ ReplyTexts(last) = << Txt("UnknownCommand", <<"foobar">>, "help") >>
  /\ chatKey(last.msg) \in DOMAIN data
  /\ watching[chatKey(last.msg)]

\* ------------------------------------------------------------------------
\* Durations of the configuration (runStart)
\*
\* A duration string is a sign, a decimal number (NoDigits if there is no
\* digit) and a unit; durations are counted in milliseconds.
\* ------------------------------------------------------------------------
NoDigits == -1

DurStr(neg, digits, unit) == [neg |-> neg, digits |-> digits, unit |-> unit]

CfgStrings ==
  { DurStr(FALSE, NoDigits, ""),      \* ""
    DurStr(FALSE, NoDigits, "abc"),   \* "abc"
    DurStr(FALSE, 0, ""),           \* "0"
    DurStr(FALSE, 5, ""),           \* "5"
    DurStr(FALSE, 0, "s"),          \* "0s"
    DurStr(TRUE, 5, "s"),           \* "-5s"
    DurStr(FALSE, 500, "ms"),       \* "500ms"
    DurStr(FALSE, 1, "s"),          \* "1s"
    DurStr(FALSE, 3, "s"),          \* "3s"
    DurStr(FALSE, 30, "s"),         \* "30s"
    DurStr(FALSE, 45, "s"),         \* "45s"
    DurStr(FALSE, 1, "h"),          \* "1h"
    DurStr(FALSE, 2, "h"),          \* "2h"
    DurStr(FALSE, 500, "h"),        \* "500h"
    DurStr(FALSE, 3000000, "h") }   \* "3000000h"

UnitMs == [ms |-> 1, s |-> 1000, m |-> 60000, h |-> 3600000]

\* the largest number of hours an int64 of nanoseconds holds
MaxHours == 2562047

\* time.ParseDuration: <<duration, whether it failed>>; a number without a
\* unit is an error unless it is 0, and so is a value beyond int64
ParseDuration(str) ==
  IF str.digits = NoDigits THEN <<0, TRUE>>
  ELSE IF str.unit = "" THEN <<0, str.digits # 0>>
  ELSE IF str.unit \notin DOMAIN UnitMs THEN <<0, TRUE>>
  ELSE IF str.unit = "h" /\ str.digits > MaxHours THEN <<0, TRUE>>
  ELSE << (IF str.neg THEN -1 ELSE 1) * str.digits * UnitMs[str.unit], FALSE >>

parseClamped_NoLowerClamp(str, def, min, max) ==
  LET p  == ParseDuration(str)
      d1 == IF p[2] \/ p[1] = 0 THEN def ELSE p[1]
  IN  IF d1 > max THEN max ELSE d1

\* parseClamped(s, def, min, max)
parseClamped(str, def, min, max) ==
  LET p  == ParseDuration(str)
      d1 == IF p[2] \/ p[1] = 0 THEN def ELSE p[1]
      d2 == IF d1 < min THEN min ELSE d1
  IN  IF d2 > max THEN max ELSE d2

\* the arguments of the two calls of parseClamped in runStart
WatchTimeMinArgs == [def |-> 5000, min |-> 1000, max |-> 30000]
WatchTimeMaxArgs == [def |-> 20000, min |-> 5000, max |-> 3600000]

\* idleTimeout of runStart: 2s if the string does not parse, not clamped
idleTimeoutOf(str) ==
  LET p == ParseDuration(str) IN IF p[2] THEN 2000 ELSE p[1]

\* the configuration is read
InitConfig ==
  /\ InitRouterFields
  /\ InitRest
  /\ InitScript
  /\ InitLoop
  /\ InitMux
  /\ \E i \in CfgStrings, lo \in CfgStrings, hi \in CfgStrings :
       last = [kind |-> "Config", IdleTimeout |-> i, WatchTimeMin |-> lo,
               WatchTimeMax |-> hi]

\* runStart computes the durations; watchSubscriptions hands watchMin and
\* watchMax to NewIdleDetector as the detector's timeout and its interval of
\* periodic pushes, its parameter timeout (idleTimeout) is not used
StartDetector ==
  /\ last.kind = "Config"
  /\ last' = [kind |-> "Detector", cfg |-> last,
              idleTimeout |-> idleTimeoutOf(last.IdleTimeout),
              timeout |-> parseClamped(last.WatchTimeMin, WatchTimeMinArgs.def,
                                       WatchTimeMinArgs.min, WatchTimeMinArgs.max),
              interval |-> parseClamped(last.WatchTimeMax, WatchTimeMaxArgs.def,
                                        WatchTimeMaxArgs.min, WatchTimeMaxArgs.max)]
  /\ KeysRest

NextConfig == StartDetector

SpecConfig == InitConfig /\ [][NextConfig]_vars

\* the clamp bound: 1s to 3600s
ClampBound == [min |-> 1000, max |-> 3600000]

\* C20: whatever duration strings the configuration holds, the idle timeout
\* and the periodic-push interval given to the Idle Detectors lie within 1s
\* and 3600s, and each call of parseClamped(s, def, min, max) returns a value
\* d with min <= d <= max.
C20_DurationsClamped ==
  last.kind = "Detector" =>
    /\ ClampBound.min <= last.timeout /\ last.timeout <= ClampBound.max
    /\ ClampBound.min <= last.interval /\ last.interval <= ClampBound.max
    /\ WatchTimeMinArgs.min <= last.timeout
    /\ last.timeout <= WatchTimeMinArgs.max
    /\ WatchTimeMaxArgs.min <= last.interval
    /\ last.interval <= WatchTimeMaxArgs.max

\* a negative and an overlong duration have been clamped
C20_Witness ==
  /\ last.kind = "Detector"
  /\ last.cfg.WatchTimeMin = DurStr(TRUE, 5, "s")
  /\ last.cfg.WatchTimeMax = DurStr(FALSE, 500, "h")
  /\ last.timeout = 1000
  /\ last.interval = 3600000

\* ------------------------------------------------------------------------
\* Idle detection: cooldown, periodic push, capture errors, cancellation
\* ------------------------------------------------------------------------
\* the step just taken pushed while the cooldown of the push before it ran
InCooldown == ~IsZero(idleLog.firedAt) /\ now - idleLog.firedAt < IdleTimeout

\* C21: after a push, no push of the fast path (idle timeout or prompt match)
\* is made until the idle timeout has elapsed since that push; a push made
\* within the idle timeout of the push before it is a periodic push.
C21_FastPushAfterCooldown ==
  /\ (idleLog.kind = "poll" /\ idleLog.pushed) => ~InCooldown
  /\ (idleLog.pushed /\ InCooldown) => idleLog.via = "periodic"

\* a fast-path push that follows an earlier push, the cooldown being over
C21_Witness ==
  /\ idleLog.kind = "poll"
  /\ idleLog.pushed
  /\ idleLog.via \in {"prompt", "idle"}
  /\ ~IsZero(idleLog.firedAt)
  /\ now - idleLog.firedAt >= IdleTimeout

\* C22: a periodic tick pushes the capture exactly if the capture succeeded
\* and differs from the last-pushed content, whether or not the content is
\* stable, matches a prompt or the cooldown has expired; the pushed content
\* becomes the last-pushed content.
C22_PeriodicPushIffDiffers ==
  idleLog.kind = "periodic" =>
    /\ idleLog.pushed <=> (idleLog.ok /\ idleLog.content # idleLog.pushedBefore)
    /\ idleLog.pushed => (idleLog.via = "periodic" /\ det.lastPushed = idleLog.content)

\* a periodic push of content no poll has seen and that holds no prompt, made
\* within the cooldown of the push before it
C22_Witness ==
  /\ idleLog.kind = "periodic"
  /\ idleLog.pushed
  /\ idleLog.content # idleLog.contentBefore
  /\ ~Match(idleLog.content)
  /\ InCooldown

\* C23: no push carries the content of the push before it, whatever the path
\* of either push, also after the pane has changed away from the pushed content
\* and back to it.
C23_NoRepeatedPush ==
  idleLog.pushed => idleLog.content # idleLog.pushedBefore

\* the pane has come back to the pushed content after the push: the poll finds
\* it stable with a prompt, the cooldown is over, and nothing is pushed
C23_Witness ==
  /\ idleLog.kind = "poll"
  /\ idleLog.ok
  /\ ~idleLog.pushed
  /\ idleLog.content = idleLog.pushedBefore
  /\ idleLog.content = idleLog.contentBefore
  /\ idleLog.changeAt > idleLog.firedAt
  /\ ~IsZero(idleLog.firedAt)
  /\ Match(idleLog.content)
  /\ ~InCooldown

\* C24: a poll or periodic cycle whose capture fails pushes nothing and leaves
\* the detector's state (last content, last change, last pushed, cooldown) as
\* it was, the loop goes on, and the loop ends only after the detector's
\* cancellation signal has fired.
C24_CaptureErrorNonFatal ==
  [][ /\ (idleLog'.kind \in {"poll", "periodic"} /\ ~idleLog'.ok) =>
           (det' = det /\ ~idleLog'.pushed /\ running' = running)
      /\ (running /\ ~running') => ctxDone ]_vars

\* a capture failed while the detector held changed content not yet pushed,
\* after an earlier push; the loop is still running
C24_Witness ==
  /\ idleLog.kind = "poll"
  /\ ~idleLog.ok
  /\ running
  /\ ~ctxDone
  /\ det.lastPushed # NoContent
  /\ det.lastContent # det.lastPushed

\* C25: once the detector's cancellation signal has fired, the detector makes
\* no further push.
C25_NoPushAfterCancel ==
  ~(ctxDone /\ idleLog.pushed)

\* ------------------------------------------------------------------------
\* Watch Supervisor: several sessions
\* ------------------------------------------------------------------------
\* a command of a chat of the telegram adapter
SessionCmd(chat, words) == Msg("telegram", chat, "u1", <<"#">> \o words, TRUE)

\* two conversations of two chats, the first of which is bound to dev when the
\* program starts: in one the first chat leaves the session both watch, in the
\* other it joins the second chat's session
SessionScripts ==
  { << SessionCmd("c1", <<"watch", " ", "on">>),
       SessionCmd("c2", <<"attach", " ", "dev">>),
       SessionCmd("c2", <<"watch", " ", "on">>),
       SessionCmd("c1", <<"attach", " ", "ops">>),
       SessionCmd("c1", <<"detach">>) >>,
    << SessionCmd("c1", <<"attach", " ", "ops">>),
       SessionCmd("c1", <<"watch", " ", "on">>),
       SessionCmd("c2", <<"attach", " ", "dev">>),
       SessionCmd("c1", <<"attach", " ", "dev">>),
       SessionCmd("c2", <<"watch", " ", "on">>),
       SessionCmd("c1", <<"watch", " ", "off">>) >> }

InitSessions ==
  /\ InitRouter
  /\ file # MissingFile
  /\ InitRest
  /\ script \in [cmds : SessionScripts, pos : {0}]
  /\ InitLoop
  /\ InitMux

\* the inbound loop hands the next command to Router.Handle; the commands
\* arrive before the root cancellation
HandleSession ==
  /\ ~rootDone
  /\ script.pos < Len(script.cmds)
  /\ HandleStep(script.cmds[script.pos + 1], OkEnvs)
  /\ script' = [script EXCEPT !.pos = @ + 1]
  /\ UNCHANGED <<inVars, loopVars, muxVars>>

NextSessions ==
  \/ HandleSession
  \/ SupervisorTick
  \/ DetectorPushAny
  \/ DetectorExitAny
  \/ DispatchOutbound
  \/ RootCancel
  \/ SupervisorDone

\* the Router, the Watch Supervisor and the detectors of two sessions, up to
\* and after the root cancellation
SpecSessions == InitSessions /\ [][NextSessions]_vars

\* C26: a tick that cancels the detector of a session without watchers leaves
\* the detector of every session that still has a watcher live and as it was;
\* a live detector is cancelled only by such a tick for its own session or by
\* the root cancellation, which cancels all of them.
C26_OtherDetectorsUntouched ==
  [][ LET sessions == needed(WatchedChats(watching, data)) IN
      /\ last'.kind = "tick" =>
           \A i \in DetIds :
             (dets[i].st = "live" /\ dets[i].session \in sessions) =>
               dets'[i] = dets[i]
      /\ \A i \in DetIds :
           (dets[i].st = "live" /\ dets'[i] # dets[i]) =>
             \/ rootDone'
             \/ /\ last'.kind = "tick"
                /\ dets[i].session \notin sessions
                /\ dets'[i] = [dets[i] EXCEPT !.st = "cancelled"]
      /\ (~rootDone /\ rootDone') => \A i \in DetIds : dets'[i].st # "live"
    ]_vars

\* a tick has cancelled the detector of one session while the detector of
\* another session, started at an earlier tick, is live
C26_Witness ==
  /\ last.kind = "tick"
  /\ last.stop # {}
  /\ ~rootDone
  /\ \E i \in DetIds :
       /\ dets[i].st = "live"
       /\ dets[i].session \notin last.start
       /\ dets[i].session \notin last.stop

\* C28: after a tick the sessions of active are the sessions of the snapshot
\* WatchedChats() returned at that tick, each with one detector of its own,
\* and the detectors that are not cancelled are those of active, however many
\* chats watch a session.
C28_DetectorsMatchSnapshot ==
  last.kind = "tick" =>
    /\ DOMAIN active = needed(WatchedChats(watching, data))
    /\ \A s, t \in DOMAIN active : active[s] = active[t] => s = t
    /\ \A i \in DetIds :
         dets[i].st = "live" =>
           (dets[i].session \in DOMAIN active /\ active[dets[i].session] = i)
    /\ ~rootDone =>
         \A s \in DOMAIN active :
           dets[active[s]].st = "live" /\ dets[active[s]].session = s

\* a tick has started one detector for a session that two chats watch and has
\* cancelled the detector of a session that lost its last watcher
C28_Witness ==
  /\ last.kind = "tick"
  /\ ~rootDone
  /\ last.stop # {}
  /\ \E s \in last.start :
       Cardinality({k \in ChatKeys : watching[k] /\ k \in DOMAIN data
                                       /\ data[k] = s}) = 2

\* C29: a push of a detector of session S is enqueued only for chats whose
\* watch flag is on and that are bound to S when the push is made, whatever
\* the chats were when the detector was started.
C29_PushOnlyToCurrentWatchers ==
  IsPush(last) =>
    \A k \in last.enq \cup last.dropped :
      watching[k] /\ k \in DOMAIN data /\ data[k] = last.session

\* a live detector pushes to one chat and not to a chat that watched its
\* session when it was started and has since re-attached to another session
C29_Witness ==
  /\ IsPush(last)
  /\ dets[last.det].st = "live"
  /\ last.enq # {}
  /\ \E k \in DOMAIN dets[last.det].snap :
       /\ dets[last.det].snap[k] = last.session
       /\ k \notin last.enq \cup last.dropped
       /\ watching[k]
       /\ k \in DOMAIN data
       /\ data[k] # last.session

\* ------------------------------------------------------------------------
\* Shutdown of the whole program
\* ------------------------------------------------------------------------
\* Manager.Run, case <-ctx.Done(): Stop of every registered adapter is called
\* and Run returns
ManagerDone ==
  /\ mgrPc = "select"
  /\ rootDone
  /\ mgrPc' = "exited"
  /\ stopped' = registered
  /\ last' = [kind |-> "MgrDone"]
  /\ UNCHANGED <<activated, watching, data, file, outbound, bridge, firstAct,
                 lastSave, handlerVars, otherVars, scriptVars, muxVars>>
  /\ UNCHANGED <<rootDone, loopPc, atCancel, drained, supPc>>

\* the events the platforms deliver while the program runs and shuts down:
\* the chat of telegram, bound to a session, turns its watch flag on, and
\* messages arrive from slack
PlatformEvents ==
  LET watchOn == Msg("telegram", "c1", "u1", <<"#", "watch", " ", "on">>, TRUE)
      hello   == Msg("slack", "c1", "u1", <<"hello">>, FALSE)
  IN  { <<watchOn, hello, hello>>, <<hello, watchOn, hello>>,
        <<hello, hello, watchOn>> }

InitTerminate ==
  /\ InitRouter
  /\ file # MissingFile
  /\ InitRest
  /\ script \in [cmds : PlatformEvents, pos : {0}]
  /\ InitLoop
  /\ InitMux

\* the next event reaches its adapter, which sends it on the inbound queue
EventArrives ==
  /\ script.pos < Len(script.cmds)
  /\ \E msg \in {script.cmds[script.pos + 1]} :
       IF msg.Channel = "telegram" THEN handleUpdate(msg) ELSE handleInner(msg)
  /\ script' = [script EXCEPT !.pos = @ + 1]
  /\ UNCHANGED <<loopVars, muxVars>>

NextTerminate ==
  \/ EventArrives
  \/ SlackSendCompletes
  \/ InboundHandle
  \/ SupervisorTick
  \/ DetectorPushAny
  \/ DetectorExitAny
  \/ DispatchOutbound
  \/ RootCancel
  \/ LoopObserveDone
  \/ LoopDrain
  \/ LoopExit
  \/ SupervisorDone
  \/ ManagerDone

\* every goroutine is scheduled again and again, and a select takes a case
\* that stays ready: a step of a loop that stays possible is taken
FairTerminate ==
  /\ WF_vars(SlackSendCompletes)
  /\ WF_vars(LoopObserveDone)
  /\ WF_vars(LoopDrain)
  /\ WF_vars(LoopExit)
  /\ WF_vars(SupervisorDone)
  /\ WF_vars(ManagerDone)
  /\ \A i \in DetIds : WF_vars(DetectorExit(i))

\* the whole program, from its start to the end of its shutdown
SpecTerminate == InitTerminate /\ [][NextTerminate]_vars /\ FairTerminate

\* the supervisor, the detectors, the inbound loop and Manager.Run have
\* returned and Stop has been called on every registered adapter
LoopsReturned ==
  /\ supPc = "exited"
  /\ \A i \in DetIds : dets[i].st \notin {"live", "cancelled"}
  /\ loopPc = "exited"
  /\ mgrPc = "exited"
  /\ stopped = registered

\* the loops of runStart end after the root cancellation
LoopsTerminate == rootDone ~> LoopsReturned

C30_DetachClearsWatch ==
  /\ LastCmd = DetachText =>
       /\ ScriptChat \notin DOMAIN data
       /\ ~watching[ScriptChat]
       /\ IsHandle(last) => ReplyTexts(last) = << Txt("Detached", <<>>, "") >>
  /\ (script.cmds = DetachScenario /\ script.pos >= 2) =>
       /\ ScriptChat \notin DOMAIN WatchedChats(watching, data)
       /\ ~watching[ScriptChat]
  /\ (script.cmds = DetachScenario /\ script.pos = 4 /\ IsHandle(last)) =>
       ReplyTexts(last) = << Txt("Status", <<"dev">>, "false") >>

\* the chat, watching before the detach, has attached again and asked for its
\* status
C30_Witness ==
  /\ script.cmds = DetachScenario
  /\ script.pos = 4
  /\ IsHandle(last)
  /\ ReplyTexts(last) = << Txt("Status", <<"dev">>, "false") >>
  /\ Get(data, ScriptChat) = << <<"dev">>, TRUE >>

\* ------------------------------------------------------------------------
\* Commands and forwarding, with the outcomes of the bridge calls
\* ------------------------------------------------------------------------
\* what a chat with an allow-list sends: commands with and without their
\* argument, commands that call the bridge, and plain text
CommandTexts ==
  { <<"#", "attach", " ", "dev">>, <<"#", "attach", " ", "ops">>,
    <<"#", "attach">>, <<"#", "detach">>, <<"#", "watch", " ", "on">>,
    <<"#", "watch">>, <<"#", "watch", " ", "maybe">>, <<"#", "key">>,
    <<"#", "key", " ", "ctrl", "-", "c">>, <<"#", "list">>, <<"#", "snap">>,
    <<"hello">> }

\* the messages of that chat, the activation message of a sender on a
\* platform without an allow-list, and a message of a second chat
CommandMsgs ==
  { Msg("telegram", "c1", "u1", t, TRUE) : t \in CommandTexts } \cup
  { Msg("feishu", "c1", "u1", activationCmd, FALSE),
    Msg("telegram", "c2", "u2", <<"#", "status">>, TRUE) }

CommandScripts == UNION { [1..n -> CommandMsgs] : n \in 1..MaxScript }

InitCommands ==
  /\ InitRouter
  /\ InitRest
  /\ InitLoop
  /\ InitMux
  /\ script \in [cmds : CommandScripts, pos : {0}]

\* the next message is handled
CommandStep ==
  /\ script.pos < Len(script.cmds)
  /\ HandleStep(script.cmds[script.pos + 1], Envs)
  /\ script' = [script EXCEPT !.pos = @ + 1]
  /\ UNCHANGED <<inVars, loopVars, muxVars>>

NextCommands ==
  \/ CommandStep
  \/ DispatchOutbound

\* the Router with a bridge whose calls may fail
SpecCommands == InitCommands /\ [][NextCommands]_vars

LastKey == chatKey(last.msg)

UsageOf(text) ==
  CASE text = <<"#", "attach">> -> Txt("UsageAttach", <<>>, "")
    [] text = <<"#", "key">> -> Txt("UsageKey", <<>>, "")
    [] text \in {<<"#", "watch">>, <<"#", "watch", " ", "maybe">>} ->
         Txt("UsageWatch", <<>>, "")
    [] OTHER -> Txt("", <<>>, "")

\* C32: attach without a session, watch without or with an invalid argument
\* and key without a key name are answered by the usage reply of the command
\* and change nothing: bindings, file and watch flags stay as they were and
\* no bridge call is made.
C32_UsageChangesNothing ==
  [][ (IsHandle(last') /\ last'.route = "pass"
         /\ UsageOf(last'.msg.Text) # Txt("", <<>>, "")) =>
        /\ ReplyTexts(last') = << UsageOf(last'.msg.Text) >>
        /\ last'.calls = << >>
        /\ UNCHANGED <<data, file, watching, activated>> ]_vars

\* a watching, bound chat sent watch with an invalid argument
C32_Witness ==
  /\ IsHandle(last)
  /\ last.msg.Text = <<"#", "watch", " ", "maybe">>
  /\ ReplyTexts(last) = << Txt("UsageWatch", <<>>, "") >>
  /\ watching[LastKey]
  /\ Get(data, LastKey)[2]

\* the error reply of a failed bridge call
ErrorReplyOf(call) ==
  CASE call = "ListSessions" -> Txt("NoSessionsFound", <<>>, "")
    [] call = "Capture"      -> Txt("CaptureFailed", <<>>, "")
    [] call = "SendRawKey"   -> Txt("Error", <<>>, "")
    [] call = "SendKeys"     -> Txt("ErrorSending", <<>>, "")

\* C33: when the bridge call of list, snap, key or of forwarding fails, Handle
\* makes one reply, the error reply of that call, to the chat that sent the
\* message, and bindings, file, watch flags and activation stay as they were;
\* snap and key of a chat without a binding are answered by "not attached"
\* without a bridge call.
C33_BridgeFailureRecovered ==
  [][ IsHandle(last') =>
        /\ last'.env.call = "err" =>
             /\ Len(last'.calls) = 1
             /\ ReplyTexts(last') = << ErrorReplyOf(last'.calls[1][1]) >>
             /\ ReplyKey(last'.replies[1]) = chatKey(last'.msg)
             /\ UNCHANGED <<data, file, watching, activated>>
        /\ (/\ last'.msg.Text \in {<<"#", "snap">>, <<"#", "key", " ", "ctrl", "-", "c">>}
            /\ last'.route = "pass"
            /\ ~Get(data, chatKey(last'.msg))[2]) =>
             /\ ReplyTexts(last') = << Txt("NotAttached", <<>>, "") >>
             /\ last'.calls = << >> ]_vars

\* after a capture that failed, whose error reply is still queued, the Router
\* has handled the next message of the chat with a bridge call that succeeded
C33_Witness ==
  /\ IsHandle(last)
  /\ last.env.call = "ok"
  /\ last.calls # << >>
  /\ script.pos = 2
  /\ script.cmds[1].Text = <<"#", "snap">>
  /\ outbound # << >>
  /\ outbound[1].Text = Txt("CaptureFailed", <<>>, "")
  /\ Get(data, LastKey)[2]

\* ------------------------------------------------------------------------
\* Channel multiplexer: failures of adapters
\* ------------------------------------------------------------------------
\* the failures Manager.Run has logged so far
Failures ==
  IF last.kind \in {"StartFailed", "Serve", "Queued"} THEN last.failures
  ELSE {}

runAfter_StopsOnFailure(outcome) ==
  IF outcome = "ok" THEN "select" ELSE "exited"

\* Manager.Run after it has handled a message: the unknown platform is
\* logged (continue), an error of Send is logged, and the for loop goes
\* back to its select
runAfter(outcome) == "select"

ServeRest ==
  UNCHANGED <<activated, watching, data, file, bridge, firstAct, lastSave,
              handlerVars, extVars, scriptVars, registered>>

\* go func(c Channel) { if err := c.Start(ctx); err != nil { slog.Error } }:
\* Start of a registered adapter returns an error, which its goroutine logs
AdapterStartFails(a) ==
  /\ a \in registered
  /\ adPc[a] = "ready"
  /\ adPc' = [adPc EXCEPT ![a] = "failed"]
  /\ last' = [kind |-> "StartFailed", adapter |-> a,
              failures |-> Failures \cup {"start"}]
  /\ UNCHANGED <<outbound, inbound, adMsg, loopVars>>
  /\ ServeRest

MuxCap == 2

\* a producer puts a message on the outbound queue, which holds MuxCap
\* messages here
QueueOutbound(msg) ==
  /\ Len(outbound) < MuxCap
  /\ outbound' = Append(outbound, msg)
  /\ last' = [kind |-> "Queued", msg |-> msg, failures |-> Failures]
  /\ UNCHANGED <<inVars, loopVars>>
  /\ ServeRest

ManagerServe_TakesNewest ==
  /\ mgrPc = "select"
  /\ outbound # << >>
  /\ outbound' = SubSeq(outbound, 1, Len(outbound) - 1)
  /\ \E res \in SendOutcomes :
       LET msg     == outbound[Len(outbound)]
           sends   == dispatchSends(registered, msg)
           outcome == IF sends = << >> THEN "unknown" ELSE res
       IN  /\ res = "ok" \/ sends # << >>
           /\ mgrPc' = runAfter(outcome)
           /\ last' = [kind |-> "Serve", msg |-> msg, sends |-> sends,
                       res |-> res, before |-> Failures,
                       failures |-> Failures \cup
                         (CASE outcome = "unknown" -> {"unknown"}
                            [] outcome = "err"     -> {"send"}
                            [] OTHER               -> {})]
  /\ UNCHANGED <<inVars, rootDone, loopPc, atCancel, drained, supPc, stopped>>
  /\ ServeRest

\* one pass of the for loop of Manager.Run through case msg := <-m.outbound
ManagerServe ==
  /\ mgrPc = "select"
  /\ outbound # << >>
  /\ outbound' = Tail(outbound)
  /\ \E res \in SendOutcomes :
       LET msg     == Head(outbound)
           sends   == dispatchSends(registered, msg)
           outcome == IF sends = << >> THEN "unknown" ELSE res
       IN  /\ res = "ok" \/ sends # << >>
           /\ mgrPc' = runAfter(outcome)
           /\ last' = [kind |-> "Serve", msg |-> msg, sends |-> sends,
                       res |-> res, before |-> Failures,
                       failures |-> Failures \cup
                         (CASE outcome = "unknown" -> {"unknown"}
                            [] outcome = "err"     -> {"send"}
                            [] OTHER               -> {})]
  /\ UNCHANGED <<inVars, rootDone, loopPc, atCancel, drained, supPc, stopped>>
  /\ ServeRest

AdapterStartFailsAny == \E a \in Adapters : AdapterStartFails(a)

QueueOutboundAny == \E msg \in OutMsgs : QueueOutbound(msg)

NextAdapters ==
  \/ AdapterStartFailsAny
  \/ QueueOutboundAny
  \/ ManagerServe
  \/ RootCancel
  \/ ManagerDone

\* the multiplexer with adapters that fail to start and Send calls that fail
SpecAdapters == InitManager /\ [][NextAdapters]_vars

\* C34: a failure of an adapter does not end the dispatch loop: until the
\* root context is cancelled Manager.Run stays in its loop, whatever Start
\* or Send errors and unknown platforms it has logged, and a message it takes
\* from the queue after such failures is passed to Send of the adapter
\* registered for its platform, also when that adapter failed to start.
C34_AdapterFailureNotFatal ==
  /\ ~rootDone => mgrPc = "select"
  /\ (last.kind = "Serve" /\ last.before # {}) =>
        last.sends = IF last.msg.Channel \in registered
                       THEN << [to |-> last.msg.Channel, msg |-> last.msg] >>
                       ELSE << >>

\* after a Start error, a Send error and an unknown platform were logged, a
\* message for the adapter whose Start failed was passed to its Send
C34_Witness ==
  /\ last.kind = "Serve"
  /\ last.before = {"start", "send", "unknown"}
  /\ Len(last.sends) = 1
  /\ last.res = "ok"
  /\ last.msg.Channel \in Adapters
  /\ adPc[last.msg.Channel] = "failed"
  /\ ~rootDone

\* ------------------------------------------------------------------------
\* Prompt patterns on the characters of a capture
\* ------------------------------------------------------------------------
MaxText == 4

\* the characters of a capture: "$" stands for a character of the class
\* [$#>], "a" for any other visible character, " " for a blank and "\n" ends
\* a line
Chars == {"$", "a", " ", "\n"}

Captures == UNION { [1..n -> Chars] : n \in 0..MaxText }

\* the class \s of the patterns
IsSpace(c) == c \in {" ", "\n"}

\* r.MatchString(text) for the configured pattern [$#>]\s*$ (which covers
\* >>>\s*$): the pattern is compiled without the flag m, so $ is the end of
\* the text
patternsMatch(text) ==
  \E i \in 1..Len(text) :
    /\ text[i] = "$"
    /\ \A j \in (i + 1)..Len(text) : IsSpace(text[j])

\* r.MatchString(text) for the start variant "^" + "[$#>]\s*" + "\s": ^ is
\* the start of the text
startPatsMatch(text) ==
  /\ Len(text) >= 2
  /\ text[1] = "$"
  /\ IsSpace(text[2])

\* PromptMatcher.Match(line string)
MatchString(text) == patternsMatch(text) \/ startPatsMatch(text)

\* the lines of a text
RECURSIVE SplitLines(_)
SplitLines(text) ==
  IF \A i \in 1..Len(text) : text[i] # "\n" THEN << text >>
  ELSE LET i == CHOOSE k \in 1..Len(text) :
                  /\ text[k] = "\n"
                  /\ \A j \in 1..(k - 1) : text[j] # "\n"
       IN  << SubSeq(text, 1, i - 1) >>
             \o SplitLines(SubSeq(text, i + 1, Len(text)))

\* a capture of the pane
InitPrompt ==
  /\ InitRouterFields
  /\ InitRest
  /\ InitScript
  /\ InitLoop
  /\ InitMux
  /\ \E text \in Captures : last = [kind |-> "Captured", content |-> text]

\* promptFound := d.promptMatcher.Match(content) in the poll branch of Run
PromptFound ==
  /\ last.kind = "Captured"
  /\ last' = [kind |-> "PromptFound", content |-> last.content,
              found |-> MatchString(last.content)]
  /\ KeysRest

NextPrompt == PromptFound

\* the prompt-match signal of the poll branch on captures of a few characters
SpecPrompt == InitPrompt /\ [][NextPrompt]_vars

\* some line of the text matches the pattern, end-anchored or start-anchored
SomeLineMatches(text) ==
  \E k \in 1..Len(SplitLines(text)) : MatchString(SplitLines(text)[k])

\* C35: the prompt-match signal of a capture is true exactly when some line
\* of the capture matches a prompt pattern, in its end-of-line-anchored or in
\* its start-of-line-anchored form, wherever in the capture that line is.
C35_PromptLineAnywhere ==
  last.kind = "PromptFound" =>
    (last.found <=> SomeLineMatches(last.content))

\* what does hold: a capture without a matching line gives no signal
PromptSignalHasLine ==
  last.kind = "PromptFound" =>
    (last.found => SomeLineMatches(last.content))

\* the messages a Handle call has put on the outbound queue
Enqueued(l) ==
  LET got == SelectSeq(l.replies, LAMBDA r : r.enq)
  IN  [i \in 1..Len(got) |-> got[i].out]

\* C36: a Handle call makes at most one reply, every reply carries the
\* platform and the chat ID of the message handled, and the outbound queue
\* grows by at most that one message, at its end.
C36_OneReplyToSender ==
  [][ (IsHandle(last') /\ script'.pos # script.pos) =>
        /\ Len(last'.replies) <= 1
        /\ \A i \in 1..Len(last'.replies) :
             ReplyKey(last'.replies[i]) = chatKey(last'.msg)
        /\ outbound' = outbound \o Enqueued(last') ]_vars

\* the second chat, which has no binding, was answered while the first chat
\* is bound
C36_Witness ==
  /\ IsHandle(last)
  /\ last.msg.ChatID = "c2"
  /\ Len(last.replies) = 1
  /\ last.replies[1].enq
  /\ outbound = << [Channel |-> "telegram", ChatID |-> "c2",
                    Text |-> Txt("NotAttached", <<>>, "")] >>
  /\ <<"telegram", "c1">> \in DOMAIN data

\* C39: a Handle call that finds the outbound queue full completes all the
\* same, leaves the queue as it is and loses its reply, and its state change
\* is made: attach sets the binding, detach clears binding and watch flag,
\* watch on sets the flag, and the activation message locks the platform to
\* its sender.
C39_FullQueueLosesOnlyReply ==
  [][ (IsHandle(last') /\ script'.pos # script.pos
         /\ Len(outbound) = OutCap) =>
        LET m == last'.msg
            k == chatKey(last'.msg)
        IN  /\ outbound' = outbound
            /\ \A i \in 1..Len(last'.replies) : ~last'.replies[i].enq
            /\ m.Text = <<"#", "attach", " ", "dev">> =>
                  Get(data', k) = << <<"dev">>, TRUE >>
            /\ m.Text = <<"#", "attach", " ", "ops">> =>
                  Get(data', k) = << <<"ops">>, TRUE >>
            /\ m.Text = <<"#", "detach">> =>
                  ~Get(data', k)[2] /\ ~watching'[k]
            /\ m.Text = <<"#", "watch", " ", "on">> => watching'[k]
            /\ (~m.PreAuthorized /\ m.Text = activationCmd
                  /\ activated[m.Channel] = "") =>
                  activated'[m.Channel] = m.SenderID ]_vars

\* the reply to attach filled the queue; detach then cleared the binding and
\* its reply was dropped
C39_Witness ==
  /\ IsHandle(last)
  /\ script.pos = 2
  /\ script.cmds[1].Text = <<"#", "attach", " ", "dev">>
  /\ last.msg.Text = <<"#", "detach">>
  /\ Len(last.replies) = 1
  /\ ~last.replies[1].enq
  /\ ~Get(data, LastKey)[2]
  /\ Len(outbound) = OutCap
  /\ outbound[1].Text = Txt("Attached", <<"dev">>, "")

\* ------------------------------------------------------------------------
\* Idle detection: content that settles is pushed
\* ------------------------------------------------------------------------
\* Run: case <-pollTicker.C, without the history of the runs of captures
PollTick ==
  /\ running
  /\ now < MaxTime
  /\ now' = now + 1
  /\ \E outcome \in CaptureOutcomes :
       \E r \in {IF outcome = "err" THEN onCaptureError(det)
                  ELSE pollStep(det, pane, now')} :
         /\ det' = r.det
         /\ idleLog' = IdleStep("poll", outcome = "ok",
                                IF outcome = "ok" THEN pane ELSE NoContent,
                                r, det)
  /\ UNCHANGED <<pane, ctxDone, running, run>>
  /\ UNCHANGED <<routerVars, handlerVars, supVars, inVars, auxVars>>

\* Run: case <-periodicTicker.C, without the history of the runs of captures
PeriodicTick ==
  /\ running
  /\ \E outcome \in CaptureOutcomes :
       \E r \in {IF outcome = "err" THEN onCaptureError(det)
                  ELSE periodicStep(det, pane, now)} :
         /\ det' = r.det
         /\ idleLog' = IdleStep("periodic", outcome = "ok",
                                IF outcome = "ok" THEN pane ELSE NoContent,
                                r, det)
  /\ UNCHANGED <<pane, now, ctxDone, running, run>>
  /\ UNCHANGED <<routerVars, handlerVars, supVars, inVars, auxVars>>

\* a periodic tick whose capture succeeds
PeriodicOk == PeriodicTick /\ idleLog'.ok

NextSettle ==
  \/ PaneChange
  \/ PollTick
  \/ PeriodicTick

\* the periodic ticker keeps firing and the select of Run, which chooses at
\* random among its ready cases, takes it again and again; captures succeed
\* again and again
FairSettle == WF_vars(PeriodicOk)

\* one Idle Detector whose context is not cancelled. The clock of the model
\* stops at MaxTime: from then on only the periodic ticker is served
SpecSettle == Init /\ [][NextSettle]_vars /\ FairSettle

\* C37: when the pane shows content that differs from the content pushed
\* last, the detector pushes that content unless the pane changes again,
\* whether the content holds a prompt or not and whether the cooldown of an
\* earlier push runs or not.
C37_NoMissedPush ==
  \A c \in Screens :
    (pane = c /\ det.lastPushed # c /\ ~ctxDone)
      ~> (det.lastPushed = c \/ pane # c)

\* content without a prompt, which replaced the content pushed before it,
\* was pushed within the cooldown of that push
C37_Witness ==
  /\ idleLog.pushed
  /\ idleLog.content = pane
  /\ det.lastPushed = pane
  /\ idleLog.pushedBefore # NoContent
  /\ ~Match(pane)
  /\ InCooldown
  /\ ~ctxDone

\* ------------------------------------------------------------------------
\* The locks of the Router and of the Subscription Store
\* ------------------------------------------------------------------------
Op(op, m) == [op |-> op, m |-> m]

\* Subscriptions.Get: RLock, read, RUnlock
storeGet == << Op("RLock", "subs"), Op("RUnlock", "subs") >>

\* Subscriptions.Set and Delete: Lock, change the map, save(), Unlock
storeWrite == << Op("Lock", "subs"), Op("save", ""), Op("Unlock", "subs") >>

\* the read of r.activated at the gate of Handle
gateRead == << Op("Lock", "activeMu"), Op("Unlock", "activeMu") >>

HandleKinds ==
  {"activate", "attach", "detach", "status", "watch", "forward", "snap"}

\* Router.Handle and handleCommand: the lock operations, the file write, the
\* bridge call and the reply of one call, in program order; a deferred
\* Unlock runs after the reply
handleLocks(kind) ==
  CASE kind = "activate" ->
         gateRead \o << Op("Lock", "activeMu"), Op("Unlock", "activeMu"),
                        Op("reply", "") >>
    [] kind = "attach" -> storeWrite \o << Op("reply", "") >>
    [] kind = "detach" ->
         storeWrite \o << Op("Lock", "mu"), Op("reply", ""), Op("Unlock", "mu") >>
    [] kind = "status" ->
         storeGet \o << Op("RLock", "mu"), Op("reply", ""), Op("RUnlock", "mu") >>
    [] kind = "watch" ->
         gateRead \o << Op("Lock", "mu"), Op("reply", ""), Op("Unlock", "mu") >>
    [] kind = "forward" -> gateRead \o storeGet \o << Op("call", "") >>
    [] kind = "snap" -> storeGet \o << Op("call", ""), Op("reply", "") >>

watchedChatsLocks_Reentrant(n) ==
  << Op("RLock", "mu") >>
    \o (IF n = 0 THEN << >> ELSE << Op("RLock", "mu"), Op("RUnlock", "mu") >>)
    \o << Op("RUnlock", "mu") >>

\* Router.WatchedChats with n chats whose watch flag is set: RLock of r.mu,
\* subs.Get for each such chat, deferred RUnlock
watchedChatsLocks(n) ==
  << Op("RLock", "mu") >>
    \o (IF n = 0 THEN << >> ELSE storeGet)
    \o << Op("RUnlock", "mu") >>

\* the locks goroutine g holds
Held(g) == { m \in Locks : lockTab[m].w = g \/ g \in lockTab[m].r }

\* whether the next operation of g can be made: Lock first announces the
\* writer, which keeps new readers out, and then waits until the lock is
\* free; RLock waits while a writer holds the lock or waits for it
CanStep(g) ==
  LET o == Head(gProg[g]) IN
  CASE o.op = "Lock" ->
         \/ g \notin lockTab[o.m].pend
         \/ lockTab[o.m].w = NoG /\ lockTab[o.m].r = {}
    [] o.op = "RLock" -> lockTab[o.m].w = NoG /\ lockTab[o.m].pend = {}
    [] OTHER -> TRUE

\* the goroutines that keep g from its next operation
Blockers(g) ==
  LET o == Head(gProg[g]) IN
  CASE o.op = "Lock" -> ({lockTab[o.m].w} \cup lockTab[o.m].r) \ {NoG}
    [] o.op = "RLock" -> ({lockTab[o.m].w} \cup lockTab[o.m].pend) \ {NoG}
    [] OTHER -> {}

LockRest ==
  UNCHANGED <<activated, watching, data, file, outbound, bridge, firstAct,
              lastSave, hPc, hMsg, hLocked, otherVars, auxVars>>

\* a message arrives and Handle is called for it
HandleCalled(g) ==
  /\ gProg[g] = << >>
  /\ \E kind \in HandleKinds :
       /\ gProg' = [gProg EXCEPT ![g] = handleLocks(kind)]
       /\ last' = [kind |-> "Called", g |-> g, what |-> kind]
  /\ UNCHANGED lockTab
  /\ LockRest

\* the supervisor's ticker fires, or a detector pushes: WatchedChats is called
WatchedChatsCalled(g) ==
  /\ gProg[g] = << >>
  /\ \E n \in {0, 1} :
       /\ gProg' = [gProg EXCEPT ![g] = watchedChatsLocks(n)]
       /\ last' = [kind |-> "Called", g |-> g, what |-> "WatchedChats"]
  /\ UNCHANGED lockTab
  /\ LockRest

\* goroutine g makes its next operation
GoStep(g) ==
  /\ gProg[g] # << >>
  /\ CanStep(g)
  /\ LET o == Head(gProg[g])
         t == lockTab[o.m]
     IN  /\ last' = [kind |-> "GoStep", g |-> g, op |-> o, held |-> Held(g),
                     waiting |-> { h \in Goroutines \ {g} :
                                     gProg[h] # << >> /\ ~CanStep(h) }]
         /\ IF o.op = "Lock" /\ g \notin t.pend
              THEN /\ lockTab' = [lockTab EXCEPT ![o.m].pend = @ \cup {g}]
                   /\ UNCHANGED gProg
              ELSE /\ gProg' = [gProg EXCEPT ![g] = Tail(@)]
                   /\ lockTab' =
                        CASE o.op = "Lock" ->
                               [lockTab EXCEPT ![o.m].w = g, ![o.m].pend = @ \ {g}]
                          [] o.op = "Unlock" -> [lockTab EXCEPT ![o.m].w = NoG]
                          [] o.op = "RLock" ->
                               [lockTab EXCEPT ![o.m].r = @ \cup {g}]
                          [] o.op = "RUnlock" ->
                               [lockTab EXCEPT ![o.m].r = @ \ {g}]
                          [] OTHER -> lockTab
  /\ LockRest

HandleCalledAny == \E g \in HandleGs : HandleCalled(g)
WatchedChatsCalledAny == \E g \in WatchGs : WatchedChatsCalled(g)
GoStepAny == \E g \in Goroutines : GoStep(g)

NextLocks ==
  \/ HandleCalledAny
  \/ WatchedChatsCalledAny
  \/ GoStepAny

\* Handle calls and WatchedChats calls running concurrently
SpecLocks == Init /\ [][NextLocks]_vars

\* activeMu is taken with no other lock held and r.mu before the store's lock
LockRank == [activeMu |-> 1, mu |-> 2, subs |-> 3]

\* a set of goroutines each of which waits for a lock that only goroutines
\* of the set can release
Deadlocked(S) ==
  \A g \in S :
    /\ gProg[g] # << >>
    /\ ~CanStep(g)
    /\ Blockers(g) \subseteq S

FairDispatch == WF_vars(ManagerServe)

\* adapters for telegram and slack are registered, one for feishu may be
InitDispatch ==
  /\ InitManager
  /\ file = MissingFile
  /\ {"telegram", "slack"} \subseteq registered

NextDispatch ==
  \/ QueueOutboundAny
  \/ ManagerServe
  \/ RootCancel
  \/ ManagerDone

\* producers, the dispatch loop and the cancellation of the root context
SpecDispatch == InitDispatch /\ [][NextDispatch]_vars /\ FairDispatch

\* Manager.Run has just passed msg to Send of its adapter (or dropped it,
\* its platform having no adapter)
Served(msg) ==
  /\ last.kind = "Serve"
  /\ last.msg = msg
  /\ last.sends = IF msg.Channel \in registered
                    THEN << [to |-> msg.Channel, msg |-> msg] >>
                    ELSE << >>

\* the queue changes only at its two ends
QueueIsFifo ==
  outbound' # outbound =>
    \/ /\ last'.kind = "Queued"
       /\ outbound' = Append(outbound, last'.msg)
    \/ /\ last'.kind = "Serve"
       /\ outbound # << >>
       /\ last'.msg = Head(outbound)
       /\ outbound' = Tail(outbound)

\* C40: while the root context is not cancelled, every message on the
\* outbound queue is eventually taken by Manager.Run and passed to Send of the
\* adapter registered for its platform, and Manager.Run takes the messages in
\* the order in which they were enqueued.
C40_DispatchedInOrder ==
  /\ \A msg \in OutMsgs :
       ((\E i \in 1..Len(outbound) : outbound[i] = msg) /\ ~rootDone)
         ~> (Served(msg) \/ rootDone)
  /\ [][QueueIsFifo]_vars

\* the older of two queued messages, for another adapter than the newer one,
\* was passed to Send of its adapter
C40_Witness ==
  /\ last.kind = "Serve"
  /\ Len(last.sends) = 1
  /\ last.res = "ok"
  /\ outbound # << >>
  /\ outbound[1].Channel # last.msg.Channel
  /\ outbound[1].Channel \in registered
  /\ ~rootDone

====
